---- MODULE Spec2Model ----
(***************************************************************************)
(* Storage gateway of the document dashboard: the S3 helper module         *)
(* (src/unnamed/part_001), the older helper the components import          *)
(* (src/src/lib/s3.ts) and the object store / pdf-lib capabilities they    *)
(* call.                                                                   *)
(*                                                                         *)
(* Strings on which the code does character work (file names, keys, bucket *)
(* names, URLs, source links) are sequences of UTF-16 code units, the unit *)
(* JavaScript's String.prototype.replace, startsWith and endsWith work on. *)
(* Date.now() values are kept as their decimal digit sequence, because a   *)
(* millisecond timestamp such as 1700000000000 does not fit TLC's 32-bit   *)
(* integers.  Error messages are sequences of text fragments, one fragment *)
(* per literal or interpolated part of the template string.                *)
(***************************************************************************)
EXTENDS Integers, Sequences, FiniteSets, TLC

\* ------------------------------------------------------------------ bounds
MaxObjects == 1
MaxNameLen == 2

\* --------------------------------------------------------------- constants
MAX_FILE_SIZE_MB == 100
DefaultExpiresIn == 3600
MaxKeys == 1000

\* "pdf_files/"
PdfPrefix == <<112, 100, 102, 95, 102, 105, 108, 101, 115, 47>>
\* "excel_sheets/"
ExcelPrefix == <<101, 120, 99, 101, 108, 95, 115, 104, 101, 101, 116, 115, 47>>
\* ".pdf", ".xlsx", ".xls", ".ods"
DotPdf == <<46, 112, 100, 102>>
DotXlsx == <<46, 120, 108, 115, 120>>
DotXls == <<46, 120, 108, 115>>
DotOds == <<46, 111, 100, 115>>
\* "https://" and ".s3.amazonaws.com/"
UrlScheme == <<104, 116, 116, 112, 115, 58, 47, 47>>
UrlHost == <<46, 115, 51, 46, 97, 109, 97, 122, 111, 110, 97, 119, 115, 46, 99, 111, 109, 47>>
\* "major-project-margdarshak", the bucket literal inside uploadPdfToS3
PdfBucketLiteral == <<109, 97, 106, 111, 114, 45, 112, 114, 111, 106, 101, 99, 116, 45, 109, 97, 114, 103, 100, 97, 114, 115, 104, 97, 107>>
\* "other-bucket"
OtherBucket == <<111, 116, 104, 101, 114, 45, 98, 117, 99, 107, 101, 116>>

\* the allow-list with the empty declared type let through
validExcelTypes_WithEmptyType ==
  { "application/vnd.ms-excel",
    "application/vnd.openxmlformats-officedocument.spreadsheetml.sheet",
    "application/vnd.oasis.opendocument.spreadsheet",
    "" }

validExcelTypes ==
  { "application/vnd.ms-excel",
    "application/vnd.openxmlformats-officedocument.spreadsheetml.sheet",
    "application/vnd.oasis.opendocument.spreadsheet" }

\* ------------------------------------------------------------ input universe
\* "报告 (final)#1.pdf"
ReportName == <<25253, 21578, 32, 40, 102, 105, 110, 97, 108, 41, 35, 49, 46, 112, 100, 102>>
\* "a.pdf"
NameAPdf == <<97, 46, 112, 100, 102>>
\* "../a b.xlsx"
NameTraversalXlsx == <<46, 46, 47, 97, 32, 98, 46, 120, 108, 115, 120>>
\* "Q-1_z.ods"
NameOds == <<81, 45, 49, 95, 122, 46, 111, 100, 115>>

FileNames == { ReportName, NameAPdf, NameTraversalXlsx, NameOds }

\* the code units a bounded file name is built from: a Z 9 . _ - / \ " space 报
NameAlphabet == { 97, 90, 57, 46, 95, 45, 47, 92, 34, 32, 25253 }

RECURSIVE SeqsUpTo(_, _)
SeqsUpTo(S, n) ==
  IF n = 0 THEN { <<>> }
  ELSE LET shorter == SeqsUpTo(S, n - 1)
       IN shorter \cup { Append(s, c) : s \in { t \in shorter : Len(t) = n - 1 }, c \in S }

BoundedNames == SeqsUpTo(NameAlphabet, MaxNameLen)

\* Date.now() results, as decimal digits: 1700000000000 and 42
Ts1700000000000 == <<1, 7, 0, 0, 0, 0, 0, 0, 0, 0, 0, 0, 0>>
Ts42 == <<4, 2>>
Timestamps == { Ts1700000000000, Ts42 }

MaxSizeBytes == MAX_FILE_SIZE_MB * 1024 * 1024
FileSizes == { 1, MaxSizeBytes, MaxSizeBytes + 1 }

\* "https://example.com/a"
LinkExample == <<104, 116, 116, 112, 115, 58, 47, 47, 101, 120, 97, 109, 112, 108, 101, 46, 99, 111, 109, 47, 97>>
\* " a b ", a link with blanks at both ends and inside
LinkSpaced == <<32, 97, 32, 98, 32>>
SourceLinks == { LinkExample, LinkSpaced }

\* contents of a file: bytes pdf-lib can parse, or bytes it cannot
FileBytes == { "pdf-document", "not-a-pdf" }

PdfUploadFiles ==
  [ name : FileNames, size : FileSizes,
    type : { "application/pdf", "text/plain" }, bytes : FileBytes ]

ExcelUploadFiles ==
  [ name : FileNames, size : FileSizes,
    type : validExcelTypes \cup { "application/pdf", "" }, bytes : { "not-a-pdf" } ]

NoFile == [ name |-> <<>>, size |-> 0, type |-> "", bytes |-> "none" ]

\* "", "evil/../../secret", "pdf_files/123-a.pdf", "excel_sheets/9-b.xlsx", "pdf_filesX/1.pdf"
KeyEmpty == <<>>
KeyEvil == <<101, 118, 105, 108, 47, 46, 46, 47, 46, 46, 47, 115, 101, 99, 114, 101, 116>>
KeyPdf123 == <<112, 100, 102, 95, 102, 105, 108, 101, 115, 47, 49, 50, 51, 45, 97, 46, 112, 100, 102>>
KeyExcel9 == <<101, 120, 99, 101, 108, 95, 115, 104, 101, 101, 116, 115, 47, 57, 45, 98, 46, 120, 108, 115, 120>>
KeyNearPrefix == <<112, 100, 102, 95, 102, 105, 108, 101, 115, 88, 47, 49, 46, 112, 100, 102>>
ArgumentKeys == { KeyEmpty, KeyEvil, KeyPdf123, KeyExcel9, KeyNearPrefix }

\* expiresIn arguments of getPresignedUrl; 0 - 1 stands for an omitted argument
Omitted == 0 - 1
ExpiresInArgs == { Omitted, 60 }

\* values of VITE_AWS_S3_BUCKET_NAME: unset, the literal of uploadPdfToS3, another
ConfiguredBuckets == { <<>>, PdfBucketLiteral, OtherBucket }

\* ------------------------------------------------------------ string helpers
startsWith(s, p) == Len(s) >= Len(p) /\ SubSeq(s, 1, Len(p)) = p

endsWith(s, p) == Len(s) >= Len(p) /\ SubSeq(s, Len(s) - Len(p) + 1, Len(s)) = p

\* Number.prototype.toString() of a non-negative integer given by its digits
NumberToString(digits) == [ i \in 1..Len(digits) |-> 48 + digits[i] ]

\* the character class with the upper-case range left out
InNameClass_NoUpperCase(c) ==
  \/ c >= 97 /\ c <= 122
  \/ c >= 48 /\ c <= 57
  \/ c = 46
  \/ c = 95
  \/ c = 45

\* the character class [a-zA-Z0-9._-] of the sanitizing regular expression
InNameClass(c) ==
  \/ c >= 97 /\ c <= 122
  \/ c >= 65 /\ c <= 90
  \/ c >= 48 /\ c <= 57
  \/ c = 46
  \/ c = 95
  \/ c = 45

\* name.replace(/[^a-zA-Z0-9._-]+/g, "_"): a run of characters becomes one "_"
RECURSIVE SanitizeName_CollapseRuns(_)
SanitizeName_CollapseRuns(name) ==
  IF name = <<>> THEN <<>>
  ELSE LET init == SubSeq(name, 1, Len(name) - 1)
           last == name[Len(name)]
       IN IF InNameClass(last) THEN Append(SanitizeName_CollapseRuns(init), last)
          ELSE IF init # <<>> /\ ~InNameClass(init[Len(init)])
            THEN SanitizeName_CollapseRuns(init)
            ELSE Append(SanitizeName_CollapseRuns(init), 95)

\* name.replace(/[^a-zA-Z0-9._-]/g, "_")
SanitizeName(name) ==
  [ i \in 1..Len(name) |-> IF InNameClass(name[i]) THEN name[i] ELSE 95 ]

\* `pdf_files/${timestamp}-${sanitizedName}`
PdfFileKey(timestamp, sanitizedName) ==
  PdfPrefix \o NumberToString(timestamp) \o <<45>> \o sanitizedName

\* `excel_sheets/${timestamp}-${sanitizedName}`
ExcelFileKey(timestamp, sanitizedName) ==
  ExcelPrefix \o NumberToString(timestamp) \o <<45>> \o sanitizedName

\* `https://${BUCKET_NAME}.s3.amazonaws.com/${key}`
PublicUrl(bucket, key) == UrlScheme \o bucket \o UrlHost \o key

\* ------------------------------------------------------------------- errors
\* a thrown value: its constructor, its name and its message fragments
ErrorOf(msg) == [ ctor |-> "Error", name |-> "Error", message |-> msg ]

NoError == [ ctor |-> "none", name |-> "", message |-> <<>> ]

\* error instanceof Error
InstanceOfError(e) == e.ctor \in { "Error", "TypeError", "S3ServiceException" }

\* error instanceof S3ServiceException
InstanceOfS3ServiceException(e) == e.ctor = "S3ServiceException"

\* what the object store client can throw: a service exception or a network error
BackendFailures ==
  { [ ctor |-> "S3ServiceException", name |-> "AccessDenied", message |-> <<"Access Denied">> ],
    [ ctor |-> "TypeError", name |-> "TypeError", message |-> <<"Failed to fetch">> ] }

\* what pdf-lib throws on bytes it cannot parse, and when it rejects an operation
PdfParseFailure == ErrorOf(<<"Failed to parse PDF document">>)
PdfLibraryFailure == ErrorOf(<<"pdf-lib rejected the operation">>)

\* what the presigner throws
PresignFailure == ErrorOf(<<"Credential is missing">>)

\* a catch block that throws its fixed message whatever it caught
CatchBlock_FixedMessage(e, s3Text, errText, unknownText) ==
  ErrorOf(<<unknownText>>)

\* the catch blocks of src/unnamed/part_001
CatchBlock(e, s3Text, errText, unknownText) ==
  IF InstanceOfS3ServiceException(e)
    THEN ErrorOf(<<s3Text, e.name, " - ">> \o e.message)
  ELSE IF InstanceOfError(e)
    THEN ErrorOf(<<errText>> \o e.message)
  ELSE ErrorOf(<<unknownText>>)

CatchAddSourceLink(e) ==
  IF InstanceOfError(e)
    THEN ErrorOf(<<"Failed to modify PDF metadata: ">> \o e.message)
    ELSE ErrorOf(<<"Failed to modify PDF metadata due to unknown error">>)

CatchUploadPdf(e) ==
  CatchBlock(e, "S3 upload failed: ", "Failed to upload PDF: ",
             "Failed to upload PDF due to unknown error")

CatchUploadExcel(e) ==
  CatchBlock(e, "S3 upload failed: ", "Failed to upload Excel: ",
             "Failed to upload Excel due to unknown error")

CatchListFiles(e) ==
  CatchBlock(e, "S3 list operation failed: ", "Failed to list files: ",
             "Failed to list files due to unknown error")

CatchPresignedUrl(e) ==
  CatchBlock(e, "Failed to generate URL: ", "Failed to generate URL: ",
             "Failed to generate URL due to unknown error")

CatchDeleteFile(e) ==
  CatchBlock(e, "S3 delete operation failed: ", "Failed to delete file: ",
             "Failed to delete file due to unknown error")

CatchFileMetadata(e) ==
  CatchBlock(e, "Failed to get metadata: ", "Failed to get metadata: ",
             "Failed to get metadata due to unknown error")

\* the catch blocks of src/src/lib/s3.ts: a fixed message each
LibCatch(fn) ==
  CASE fn = "addSourceLinkToPdf" -> ErrorOf(<<"Failed to modify PDF metadata">>)
    [] fn = "uploadPdfToS3" -> ErrorOf(<<"Failed to upload PDF to S3">>)
    [] fn = "uploadExcelToS3" -> ErrorOf(<<"Failed to upload Excel to S3">>)
    [] fn = "listFilesFromS3" -> ErrorOf(<<"Failed to list files from S3">>)
    [] OTHER -> ErrorOf(<<"Failed to delete file from S3">>)

\* validateFileSize with the limit compared one byte too high
validateFileSize_OneByteLate(file) ==
  IF file.size - 1 > MAX_FILE_SIZE_MB * 1024 * 1024
    THEN ErrorOf(<<"File too large. Maximum size is ", "100", "MB.">>)
    ELSE NoError

\* validateFileSize: the value it throws, or NoError when it returns true
validateFileSize(file) ==
  IF file.size > MAX_FILE_SIZE_MB * 1024 * 1024
    THEN ErrorOf(<<"File too large. Maximum size is ", "100", "MB.">>)
    ELSE NoError

\* -------------------------------------------------------------------- state
VARIABLES
  BUCKET_NAME,      \* module constant read from the environment at load time
  presignerPackage, \* whether @aws-sdk/s3-request-presigner can be imported
  getSignedUrl,     \* module-level variable: "undefined" or "imported"
  store,            \* the objects held by the object store
  pc,               \* position of the invocation in progress
  call,             \* the function invoked and its arguments
  local,            \* local variables of the invocation
  backendCalls,     \* requests the invocation has issued to the object store
  docCalls,         \* calls the invocation has made on pdf-lib
  result,           \* how the invocation settled
  cause,            \* which failure of the error taxonomy made it reject
  thrown,           \* the value first thrown inside the invocation, before any catch block
  ui                \* state, props and timers of the mounted React component

vars == << BUCKET_NAME, presignerPackage, getSignedUrl, store, pc, call, local,
           backendCalls, docCalls, result, cause, thrown, ui >>

NoDoc == [ Title |-> <<>>, Author |-> "", Subject |-> <<>>, Producer |-> "",
           Creator |-> "", Keywords |-> <<>>, Custom |-> <<>> ]

NoResponse == [ state |-> "none", Contents |-> <<>> ]

NoCall == [ fn |-> "none", src |-> "none", file |-> NoFile, sourceLink |-> <<>>,
            fileKey |-> <<>>, expiresIn |-> Omitted ]

NoCommand == [ op |-> "none", Bucket |-> <<>>, Key |-> <<>> ]

NoBody == [ bytes |-> "none", rewritten |-> FALSE, doc |-> NoDoc ]

NoLocal == [ timestamp |-> <<>>, sanitizedName |-> <<>>, fileKey |-> <<>>,
             doc |-> NoDoc, modifiedPdfBytes |-> NoBody,
             pdfResponse |-> NoResponse, excelResponse |-> NoResponse, arrived |-> <<>>,
             expiresIn |-> 0, command |-> NoCommand ]

NoUrl == [ kind |-> "none", method |-> "", Bucket |-> <<>>, Key |-> <<>>,
           expiresIn |-> 0, text |-> <<>> ]

NoResult == [ status |-> "none", key |-> <<>>, files |-> <<>>, url |-> NoUrl,
              metadataOf |-> <<>>, error |-> NoError ]

\* no component is mounted: the gateway is driven by its caller directly
NoUi == [ component |-> "none" ]

Init ==
  /\ BUCKET_NAME \in ConfiguredBuckets
  /\ presignerPackage \in BOOLEAN
  /\ getSignedUrl = "undefined"
  /\ store = {}
  /\ pc = "idle"
  /\ call = NoCall
  /\ local = NoLocal
  /\ backendCalls = <<>>
  /\ docCalls = <<>>
  /\ result = NoResult
  /\ cause = "none"
  /\ thrown = NoError
  /\ ui = NoUi

\* ------------------------------------------------------ values of Metadata
\* Number.prototype.toString() of a non-negative integer, as code units
RECURSIVE IntegerToString(_)
IntegerToString(n) ==
  IF n < 10 THEN << 48 + n >> ELSE IntegerToString(n \div 10) \o << 48 + (n % 10) >>

\* the characters encodeURIComponent leaves alone: A-Z a-z 0-9 - _ . ! ~ * ' ( )
UriUnreserved(c) ==
  \/ c \in 65..90
  \/ c \in 97..122
  \/ c \in 48..57
  \/ c \in { 45, 95, 46, 33, 126, 42, 39, 40, 41 }

\* the UTF-8 bytes of a code unit that is not a surrogate
Utf8(c) ==
  IF c < 128 THEN << c >>
  ELSE IF c < 2048 THEN << 192 + (c \div 64), 128 + (c % 64) >>
  ELSE << 224 + (c \div 4096), 128 + ((c \div 64) % 64), 128 + (c % 64) >>

HexDigit(d) == IF d < 10 THEN 48 + d ELSE 55 + d

\* "%XX" for every byte, upper-case hexadecimal
RECURSIVE PercentEncoded(_)
PercentEncoded(bytes) ==
  IF bytes = <<>> THEN <<>>
  ELSE << 37, HexDigit(Head(bytes) \div 16), HexDigit(Head(bytes) % 16) >>
       \o PercentEncoded(Tail(bytes))

\* encodeURIComponent of a string without surrogate code units
RECURSIVE encodeURIComponent(_)
encodeURIComponent(str) ==
  IF str = <<>> THEN <<>>
  ELSE (IF UriUnreserved(Head(str)) THEN << Head(str) >> ELSE PercentEncoded(Utf8(Head(str))))
       \o encodeURIComponent(Tail(str))

\* ---------------------------------------------------------- settling a call
\* the catch block of the function in progress
Caught(src, fn, e) ==
  IF src = "lib/s3.ts" THEN LibCatch(fn)
  ELSE CASE fn = "uploadPdfToS3" -> CatchUploadPdf(e)
         [] fn = "uploadExcelToS3" -> CatchUploadExcel(e)
         [] fn = "listFilesFromS3" -> CatchListFiles(e)
         [] fn = "getPresignedUrl" -> CatchPresignedUrl(e)
         [] fn = "deleteFileFromS3" -> CatchDeleteFile(e)
         [] OTHER -> CatchFileMetadata(e)

\* the promise rejects with the value the catch block throws
Rejects(src, fn, e, member) ==
  /\ result' = [ NoResult EXCEPT !.status = "rejected", !.error = Caught(src, fn, e) ]
  /\ cause' = member
  /\ thrown' = e
  /\ pc' = "done"

Fulfils(r) ==
  /\ result' = [ r EXCEPT !.status = "fulfilled" ]
  /\ cause' = "none"
  /\ thrown' = NoError
  /\ pc' = "done"

\* outcomes of a request sent to the object store; the client refuses an
\* empty bucket name before anything goes on the wire
RequestOutcomes(bucket) ==
  IF bucket = <<>>
    THEN { f \in BackendFailures : ~InstanceOfS3ServiceException(f) }
    ELSE { NoError } \cup BackendFailures

\* a number or date that is left out of a request or of a listing entry
Absent == 0 - 1

\* a request that carries no user metadata
NoMetadata == <<>>

PutRequest(bucket, key, body, contentType, disposition, metadata) ==
  [ op |-> "PutObject", Bucket |-> bucket, Key |-> key, Prefix |-> <<>>, MaxKeys |-> Absent,
    Body |-> body, ContentType |-> contentType, ContentDisposition |-> disposition,
    Metadata |-> metadata ]

KeyRequest(op, bucket, key) ==
  [ op |-> op, Bucket |-> bucket, Key |-> key, Prefix |-> <<>>, MaxKeys |-> Absent,
    Body |-> NoBody, ContentType |-> "", ContentDisposition |-> <<>>, Metadata |-> NoMetadata ]

ListRequest(bucket, prefix, maxKeys) ==
  [ op |-> "ListObjectsV2", Bucket |-> bucket, Key |-> <<>>, Prefix |-> prefix, MaxKeys |-> maxKeys,
    Body |-> NoBody, ContentType |-> "", ContentDisposition |-> <<>>, Metadata |-> NoMetadata ]

\* `attachment; filename="${sanitizedName}"`
AttachmentDisposition(sanitizedName) ==
  <<97, 116, 116, 97, 99, 104, 109, 101, 110, 116, 59, 32, 102, 105, 108, 101, 110, 97, 109, 101, 61, 34>>
    \o sanitizedName \o <<34>>

\* ------------------------------------------------------------ uploadPdfToS3
\* "Document: ", "source:" and "upload:"
TitlePrefix == <<68, 111, 99, 117, 109, 101, 110, 116, 58, 32>>
SourceTag == <<115, 111, 117, 114, 99, 101, 58>>
UploadTag == <<117, 112, 108, 111, 97, 100, 58>>
\* new Date().toISOString() readings: "2023-11-14T22:13:20.000Z"
IsoNow == <<50, 48, 50, 51, 45, 49, 49, 45, 49, 52, 84, 50, 50, 58, 49, 51, 58, 50, 48, 46, 48, 48, 48, 90>>
IsoTimestamps == { IsoNow }

\* uploadPdfToS3 starting the upload of the original bytes before the rewrite
UploadPdfToS3_PutBeforeEmbed(file, sourceLink) ==
  /\ pc = "idle"
  /\ Cardinality(store) < MaxObjects
  /\ call' = [ NoCall EXCEPT !.fn = "uploadPdfToS3", !.src = "part_001",
                             !.file = file, !.sourceLink = sourceLink ]
  /\ IF validateFileSize(file) # NoError
       THEN /\ Rejects("part_001", "uploadPdfToS3", validateFileSize(file), "ValidationError")
            /\ UNCHANGED backendCalls
       ELSE /\ pc' = "pdf_load"
            /\ backendCalls' = << PutRequest(PdfBucketLiteral, PdfFileKey(Ts42, SanitizeName(file.name)),
                                             [ bytes |-> file.bytes, rewritten |-> FALSE, doc |-> NoDoc ],
                                             "application/pdf", <<>>, NoMetadata) >>
            /\ UNCHANGED << result, cause, thrown >>
  /\ UNCHANGED << ui, BUCKET_NAME, presignerPackage, getSignedUrl, store, local, docCalls >>

\* uploadPdfToS3 of part_001 up to its first await: the bucket-name check on
\* the function's own literal, then validateFileSize, then addSourceLinkToPdf
\* starts reading the file
UploadPdfToS3(file, sourceLink) ==
  /\ pc = "idle"
  /\ Cardinality(store) < MaxObjects
  /\ call' = [ NoCall EXCEPT !.fn = "uploadPdfToS3", !.src = "part_001",
                             !.file = file, !.sourceLink = sourceLink ]
  /\ IF PdfBucketLiteral = <<>>
       THEN Rejects("part_001", "uploadPdfToS3",
                    ErrorOf(<<"S3 bucket name is not defined. Check your environment configuration.">>),
                    "ConfigurationError")
       ELSE IF validateFileSize(file) # NoError
         THEN Rejects("part_001", "uploadPdfToS3", validateFileSize(file), "ValidationError")
         ELSE /\ pc' = "pdf_load"
              /\ UNCHANGED << result, cause, thrown >>
  /\ UNCHANGED << ui, BUCKET_NAME, presignerPackage, getSignedUrl, store, local,
                  backendCalls, docCalls >>

\* uploadPdfToS3 of lib/s3.ts up to its first await: no check at all, it goes
\* straight into addSourceLinkToPdf
Lib_UploadPdf(file, sourceLink) ==
  /\ pc = "idle"
  /\ Cardinality(store) < MaxObjects
  /\ call' = [ NoCall EXCEPT !.fn = "uploadPdfToS3", !.src = "lib/s3.ts",
                             !.file = file, !.sourceLink = sourceLink ]
  /\ pc' = "pdf_load"
  /\ UNCHANGED << BUCKET_NAME, presignerPackage, getSignedUrl, store, local,
                  backendCalls, docCalls, result, cause, thrown >>

\* the same called by a caller outside the components
Lib_UploadPdfToS3(file, sourceLink) == Lib_UploadPdf(file, sourceLink) /\ UNCHANGED ui

\* the catch block of addSourceLinkToPdf
MetadataFailure(src, e) ==
  IF src = "lib/s3.ts" THEN LibCatch("addSourceLinkToPdf") ELSE CatchAddSourceLink(e)

\* pdf-lib throws e: the catch block of addSourceLinkToPdf rethrows it wrapped,
\* then the catch block of uploadPdfToS3 wraps that
RejectsMetadata(src, fn, e) ==
  /\ result' = [ NoResult EXCEPT !.status = "rejected",
                                 !.error = Caught(src, fn, MetadataFailure(src, e)) ]
  /\ cause' = "MetadataWriteError"
  /\ thrown' = e
  /\ pc' = "done"

\* the document fields with the subject set to the percent-encoded link
RewrittenDoc_EncodedSubject(file, sourceLink, iso) ==
  [ Title |-> TitlePrefix \o file.name,
    Author |-> "Document Management System",
    Subject |-> encodeURIComponent(sourceLink),
    Producer |-> "DMS Upload Tool",
    Creator |-> "DMS Upload Tool",
    Keywords |-> << SourceTag \o sourceLink, UploadTag \o iso >>,
    Custom |-> <<>> ]

\* the document fields part_001 sets (lines 66 to 73)
RewrittenDoc(file, sourceLink, iso) ==
  [ Title |-> TitlePrefix \o file.name,
    Author |-> "Document Management System",
    Subject |-> sourceLink,
    Producer |-> "DMS Upload Tool",
    Creator |-> "DMS Upload Tool",
    Keywords |-> << SourceTag \o sourceLink, UploadTag \o iso >>,
    Custom |-> <<>> ]

\* the document fields lib/s3.ts sets (lines 26 to 27)
Lib_RewrittenDoc(sourceLink) ==
  [ NoDoc EXCEPT !.Subject = sourceLink, !.Custom = sourceLink ]

\* addSourceLinkToPdf: PDFDocument.load settles; on success the fields are set
\* and save() is called
PdfLoad ==
  /\ pc = "pdf_load"
  /\ IF call.file.bytes # "pdf-document"
       THEN /\ docCalls' = Append(docCalls, "load")
            /\ RejectsMetadata(call.src, call.fn, PdfParseFailure)
            /\ UNCHANGED local
       ELSE IF call.src = "part_001"
         THEN \E iso \in IsoTimestamps :
                /\ docCalls' = docCalls \o << "load", "setTitle", "setAuthor", "setSubject",
                                              "setProducer", "setCreator", "setKeywords", "save" >>
                /\ local' = [ local EXCEPT !.doc = RewrittenDoc(call.file, call.sourceLink, iso) ]
                /\ pc' = "pdf_save"
                /\ UNCHANGED << result, cause, thrown >>
         ELSE \E accepted \in BOOLEAN :
                IF accepted
                  THEN /\ docCalls' = docCalls \o << "load", "setSubject", "setCustomMetadata", "save" >>
                       /\ local' = [ local EXCEPT !.doc = Lib_RewrittenDoc(call.sourceLink) ]
                       /\ pc' = "pdf_save"
                       /\ UNCHANGED << result, cause, thrown >>
                  ELSE /\ docCalls' = docCalls \o << "load", "setSubject", "setCustomMetadata" >>
                       /\ RejectsMetadata(call.src, call.fn, PdfLibraryFailure)
                       /\ UNCHANGED local
  /\ UNCHANGED << ui, BUCKET_NAME, presignerPackage, getSignedUrl, store, call, backendCalls >>

\* what pdfDoc.save() resolves to: the file's document with the fields set
SavedBytes(file, doc) == [ bytes |-> file.bytes, rewritten |-> TRUE, doc |-> doc ]

\* the Upload of part_001 with the source link put into Metadata as it came
PdfUpload_RawSourceLink(file, sourceLink, modifiedPdfBytes, timestamp) ==
  PutRequest(PdfBucketLiteral,
             PdfFileKey(timestamp, SanitizeName(file.name)),
             modifiedPdfBytes,
             "application/pdf",
             AttachmentDisposition(SanitizeName(file.name)),
             [ sourceLink |-> sourceLink,
               originalName |-> encodeURIComponent(file.name),
               uploadTimestamp |-> NumberToString(timestamp),
               fileSize |-> IntegerToString(file.size) ])

\* the Upload that part_001 constructs (lines 114 to 134)
PdfUpload(file, sourceLink, modifiedPdfBytes, timestamp) ==
  PutRequest(PdfBucketLiteral,
             PdfFileKey(timestamp, SanitizeName(file.name)),
             modifiedPdfBytes,
             "application/pdf",
             AttachmentDisposition(SanitizeName(file.name)),
             [ sourceLink |-> encodeURIComponent(sourceLink),
               originalName |-> encodeURIComponent(file.name),
               uploadTimestamp |-> NumberToString(timestamp),
               fileSize |-> IntegerToString(file.size) ])

\* the Upload that lib/s3.ts constructs (lines 48 to 63)
Lib_PdfUpload(bucket, file, sourceLink, modifiedPdfBytes, timestamp) ==
  PutRequest(bucket,
             PdfPrefix \o NumberToString(timestamp) \o <<45>> \o file.name,
             modifiedPdfBytes,
             "application/pdf",
             <<>>,
             [ sourceLink |-> encodeURIComponent(sourceLink) ])

\* pdfDoc.save() settles; on success uploadPdfToS3 reads the clock, derives the
\* key and starts the upload
PdfSave ==
  /\ pc = "pdf_save"
  /\ \/ \E timestamp \in Timestamps :
          LET modifiedPdfBytes == SavedBytes(call.file, local.doc)
              upload == IF call.src = "part_001"
                          THEN PdfUpload(call.file, call.sourceLink, modifiedPdfBytes, timestamp)
                          ELSE Lib_PdfUpload(BUCKET_NAME, call.file, call.sourceLink,
                                             modifiedPdfBytes, timestamp)
          IN /\ local' = [ local EXCEPT
                             !.modifiedPdfBytes = modifiedPdfBytes,
                             !.timestamp = timestamp,
                             !.sanitizedName = IF call.src = "part_001"
                                                 THEN SanitizeName(call.file.name) ELSE <<>>,
                             !.fileKey = upload.Key ]
             /\ backendCalls' = Append(backendCalls, upload)
             /\ pc' = "upload_done"
             /\ UNCHANGED << result, cause, thrown >>
     \/ /\ RejectsMetadata(call.src, call.fn, PdfLibraryFailure)
        /\ UNCHANGED << local, backendCalls >>
  /\ UNCHANGED << ui, BUCKET_NAME, presignerPackage, getSignedUrl, store, call, docCalls >>

\* ---------------------------------------------------------- uploadExcelToS3
\* the Upload of uploadExcelToS3 with the body passed through the rewrite
ExcelUpload_Rewritten(bucket, file, timestamp) ==
  PutRequest(bucket,
             ExcelFileKey(timestamp, SanitizeName(file.name)),
             SavedBytes(file, NoDoc),
             file.type,
             AttachmentDisposition(SanitizeName(file.name)),
             [ originalName |-> encodeURIComponent(file.name),
               uploadTimestamp |-> NumberToString(timestamp),
               fileSize |-> IntegerToString(file.size) ])

\* the Upload that uploadExcelToS3 constructs (lines 173 to 192)
ExcelUpload(bucket, file, timestamp) ==
  PutRequest(bucket,
             ExcelFileKey(timestamp, SanitizeName(file.name)),
             [ bytes |-> file.bytes, rewritten |-> FALSE, doc |-> NoDoc ],
             file.type,
             AttachmentDisposition(SanitizeName(file.name)),
             [ originalName |-> encodeURIComponent(file.name),
               uploadTimestamp |-> NumberToString(timestamp),
               fileSize |-> IntegerToString(file.size) ])

\* uploadExcelToS3 up to its first await: size check, type check, clock, key,
\* then the file is read for the body
UploadExcelToS3(file) ==
  /\ pc = "idle"
  /\ Cardinality(store) < MaxObjects
  /\ call' = [ NoCall EXCEPT !.fn = "uploadExcelToS3", !.src = "part_001", !.file = file ]
  /\ IF validateFileSize(file) # NoError
       THEN /\ Rejects("part_001", "uploadExcelToS3", validateFileSize(file), "ValidationError")
            /\ UNCHANGED local
       ELSE IF file.type \notin validExcelTypes
         THEN /\ Rejects("part_001", "uploadExcelToS3",
                         ErrorOf(<<"Invalid Excel file format. Please upload a valid Excel file.">>),
                         "ValidationError")
              /\ UNCHANGED local
         ELSE \E timestamp \in Timestamps :
                /\ local' = [ local EXCEPT
                                !.timestamp = timestamp,
                                !.sanitizedName = SanitizeName(file.name),
                                !.fileKey = ExcelFileKey(timestamp, SanitizeName(file.name)) ]
                /\ pc' = "excel_read"
                /\ UNCHANGED << result, cause, thrown >>
  /\ UNCHANGED << ui, BUCKET_NAME, presignerPackage, getSignedUrl, store, backendCalls, docCalls >>

\* excelFile.arrayBuffer() resolves and the upload starts
ExcelRead ==
  /\ pc = "excel_read"
  /\ backendCalls' = Append(backendCalls, ExcelUpload(BUCKET_NAME, call.file, local.timestamp))
  /\ pc' = "upload_done"
  /\ UNCHANGED << ui, BUCKET_NAME, presignerPackage, getSignedUrl, store, call, local,
                  docCalls, result, cause, thrown >>

\* upload.done() with the put sent a second time after a first failure
UploadDone_RetryOnce ==
  /\ pc = "upload_done"
  /\ LET upload == backendCalls[Len(backendCalls)]
     IN \E outcome \in RequestOutcomes(upload.Bucket) :
          IF outcome = NoError
            THEN /\ store' = store \cup { [ Bucket |-> upload.Bucket, Key |-> upload.Key ] }
                 /\ Fulfils([ NoResult EXCEPT !.key = local.fileKey ])
                 /\ UNCHANGED backendCalls
            ELSE IF Len(backendCalls) = 1
              THEN /\ backendCalls' = Append(backendCalls, upload)
                   /\ UNCHANGED << store, pc, result, cause, thrown >>
              ELSE /\ Rejects(call.src, call.fn, outcome, "StoreError")
                   /\ UNCHANGED << store, backendCalls >>
  /\ UNCHANGED << ui, BUCKET_NAME, presignerPackage, getSignedUrl, call, local, docCalls >>

\* upload.done() settles: the object is stored and the key returned, or the
\* backend's failure goes through the catch block
UploadDone ==
  /\ pc = "upload_done"
  /\ LET upload == backendCalls[Len(backendCalls)]
     IN \E outcome \in RequestOutcomes(upload.Bucket) :
          IF outcome = NoError
            THEN /\ store' = store \cup { [ Bucket |-> upload.Bucket, Key |-> upload.Key ] }
                 /\ Fulfils([ NoResult EXCEPT !.key = local.fileKey ])
            ELSE /\ Rejects(call.src, call.fn, outcome, "StoreError")
                 /\ UNCHANGED store
  /\ UNCHANGED << ui, BUCKET_NAME, presignerPackage, getSignedUrl, call, local,
                  backendCalls, docCalls >>

\* ---------------------------------------------------------- listFilesFromS3
ReportedSizes == { Absent, 7 }
ReportedTimes == { Absent, 5 }

\* the Key of a listing entry that carries none (Key is optional in the
\* SDK's _Object type), and what a template literal makes of it
Undefined == << Absent >>
UndefinedText == <<117, 110, 100, 101, 102, 105, 110, 101, 100>>

\* the objects a listing of the bucket under the prefix reports
Listed(bucket, prefix) ==
  { o \in store : o.Bucket = bucket /\ (o.Key = Undefined \/ startsWith(o.Key, prefix)) }

\* the Contents a ListObjectsV2 response can carry: one entry per listed
\* object, with the size and modification time the backend reports (a page
\* holds at most 1000 entries, which MaxObjects stays far below)
ListingContents(bucket, prefix) ==
  LET keys == { o.Key : o \in Listed(bucket, prefix) }
      n == Cardinality(keys)
      entries == [ Key : keys, Size : ReportedSizes, LastModified : ReportedTimes ]
  IN { c \in [ 1..n -> entries ] : \A i, j \in 1..n : i # j => c[i].Key # c[j].Key }

\* key.split("/").pop()
RECURSIVE LastSegment(_)
LastSegment(key) ==
  IF key = <<>> THEN <<>>
  ELSE IF key[Len(key)] = 47 THEN <<>>
  ELSE Append(LastSegment(SubSeq(key, 1, Len(key) - 1)), key[Len(key)])

\* the FileInfo a listing entry is mapped to
FileInfoOf(item, type, bucket) ==
  [ id |-> IF item.Key = Undefined THEN <<>> ELSE item.Key,
    name |-> IF item.Key = Undefined THEN <<>> ELSE LastSegment(item.Key),
    type |-> type,
    uploadedAt |-> IF item.LastModified = Absent
                     THEN [ from |-> "new Date()", at |-> 0 ]
                     ELSE [ from |-> "LastModified", at |-> item.LastModified ],
    size |-> IF item.Size = Absent THEN 0 ELSE item.Size,
    url |-> PublicUrl(bucket, IF item.Key = Undefined THEN UndefinedText ELSE item.Key) ]

MapFileInfo(items, type, bucket) ==
  [ i \in 1..Len(items) |-> FileInfoOf(items[i], type, bucket) ]

\* item.Key && item.Key.endsWith(".pdf")
IsPdfKey(item) == item.Key # Undefined /\ item.Key # <<>> /\ endsWith(item.Key, DotPdf)

\* the spreadsheet filter without the OpenDocument extension
IsExcelKey_NoOds(item) ==
  /\ item.Key # Undefined
  /\ item.Key # <<>>
  /\ endsWith(item.Key, DotXlsx) \/ endsWith(item.Key, DotXls)

IsExcelKey(item) ==
  /\ item.Key # Undefined
  /\ item.Key # <<>>
  /\ endsWith(item.Key, DotXlsx) \/ endsWith(item.Key, DotXls) \/ endsWith(item.Key, DotOds)

\* the two category lists concatenated the other way round
ListedFiles_ExcelFirst(pdfContents, excelContents, bucket) ==
  MapFileInfo(SelectSeq(excelContents, IsExcelKey), "excel", bucket)
    \o MapFileInfo(SelectSeq(pdfContents, IsPdfKey), "pdf", bucket)

\* lines 234 to 259 of part_001
ListedFiles(pdfContents, excelContents, bucket) ==
  MapFileInfo(SelectSeq(pdfContents, IsPdfKey), "pdf", bucket)
    \o MapFileInfo(SelectSeq(excelContents, IsExcelKey), "excel", bucket)

\* lines 121 to 141 of lib/s3.ts: no extension filter
Lib_ListedFiles(pdfContents, excelContents, bucket) ==
  MapFileInfo(pdfContents, "pdf", bucket) \o MapFileInfo(excelContents, "excel", bucket)

\* listFilesFromS3 up to its await: both commands are sent, then Promise.all waits
ListFiles(src) ==
  /\ pc = "idle"
  /\ call' = [ NoCall EXCEPT !.fn = "listFilesFromS3", !.src = src ]
  /\ LET maxKeys == IF src = "part_001" THEN MaxKeys ELSE Absent
     IN backendCalls' = << ListRequest(BUCKET_NAME, PdfPrefix, maxKeys),
                           ListRequest(BUCKET_NAME, ExcelPrefix, maxKeys) >>
  /\ local' = [ local EXCEPT !.pdfResponse = [ state |-> "pending", Contents |-> <<>> ],
                             !.excelResponse = [ state |-> "pending", Contents |-> <<>> ] ]
  /\ pc' = "list_wait"
  /\ UNCHANGED << BUCKET_NAME, presignerPackage, getSignedUrl, store, docCalls, result, cause, thrown >>

ListFilesFromS3 == ListFiles("part_001") /\ UNCHANGED ui

Lib_ListFilesFromS3 == ListFiles("lib/s3.ts") /\ UNCHANGED ui

\* Promise.all once both responses are in
ListSettles(pdfResponse, excelResponse) ==
  IF pdfResponse.state = "fulfilled" /\ excelResponse.state = "fulfilled"
    THEN Fulfils([ NoResult EXCEPT !.files =
                     IF call.src = "part_001"
                       THEN ListedFiles(pdfResponse.Contents, excelResponse.Contents, BUCKET_NAME)
                       ELSE Lib_ListedFiles(pdfResponse.Contents, excelResponse.Contents, BUCKET_NAME) ])
    ELSE UNCHANGED << pc, result, cause, thrown >>

\* the PDF listing with the lists joined in the order the responses arrived
PdfListResponse_ArrivalOrder ==
  /\ pc = "list_wait"
  /\ local.pdfResponse.state = "pending"
  /\ \E outcome \in RequestOutcomes(BUCKET_NAME) :
       IF outcome # NoError
         THEN /\ Rejects(call.src, call.fn, outcome, "StoreError")
              /\ local' = [ local EXCEPT !.pdfResponse.state = "rejected",
                                        !.arrived = Append(local.arrived, "pdf") ]
         ELSE \E contents \in ListingContents(BUCKET_NAME, PdfPrefix) :
                /\ local' = [ local EXCEPT
                                !.pdfResponse = [ state |-> "fulfilled", Contents |-> contents ],
                                !.arrived = Append(local.arrived, "pdf") ]
                /\ IF local.excelResponse.state = "fulfilled"
                     THEN Fulfils([ NoResult EXCEPT !.files =
                            MapFileInfo(SelectSeq(local.excelResponse.Contents, IsExcelKey),
                                        "excel", BUCKET_NAME)
                              \o MapFileInfo(SelectSeq(contents, IsPdfKey), "pdf", BUCKET_NAME) ])
                     ELSE UNCHANGED << pc, result, cause, thrown >>
  /\ UNCHANGED << ui, BUCKET_NAME, presignerPackage, getSignedUrl, store, call,
                  backendCalls, docCalls >>

\* the response to the PDF listing arrives: a rejection rejects Promise.all at once
PdfListResponse ==
  /\ pc = "list_wait"
  /\ local.pdfResponse.state = "pending"
  /\ \E outcome \in RequestOutcomes(BUCKET_NAME) :
       IF outcome # NoError
         THEN /\ Rejects(call.src, call.fn, outcome, "StoreError")
              /\ local' = [ local EXCEPT !.pdfResponse.state = "rejected",
                                        !.arrived = Append(local.arrived, "pdf") ]
         ELSE \E contents \in ListingContents(BUCKET_NAME, PdfPrefix) :
                LET response == [ state |-> "fulfilled", Contents |-> contents ]
                IN /\ local' = [ local EXCEPT !.pdfResponse = response,
                                             !.arrived = Append(local.arrived, "pdf") ]
                   /\ ListSettles(response, local.excelResponse)
  /\ UNCHANGED << ui, BUCKET_NAME, presignerPackage, getSignedUrl, store, call,
                  backendCalls, docCalls >>

\* the spreadsheet listing with a failure taken as an empty listing
ExcelListResponse_EmptyOnFailure ==
  /\ pc = "list_wait"
  /\ local.excelResponse.state = "pending"
  /\ \E outcome \in RequestOutcomes(BUCKET_NAME) :
       IF outcome # NoError
         THEN /\ local' = [ local EXCEPT !.excelResponse.state = "rejected",
                                        !.arrived = Append(local.arrived, "excel") ]
              /\ ListSettles(local.pdfResponse, [ state |-> "fulfilled", Contents |-> <<>> ])
         ELSE \E contents \in ListingContents(BUCKET_NAME, ExcelPrefix) :
                LET response == [ state |-> "fulfilled", Contents |-> contents ]
                IN /\ local' = [ local EXCEPT !.excelResponse = response,
                                             !.arrived = Append(local.arrived, "excel") ]
                   /\ ListSettles(local.pdfResponse, response)
  /\ UNCHANGED << ui, BUCKET_NAME, presignerPackage, getSignedUrl, store, call,
                  backendCalls, docCalls >>

\* the response to the spreadsheet listing arrives
ExcelListResponse ==
  /\ pc = "list_wait"
  /\ local.excelResponse.state = "pending"
  /\ \E outcome \in RequestOutcomes(BUCKET_NAME) :
       IF outcome # NoError
         THEN /\ Rejects(call.src, call.fn, outcome, "StoreError")
              /\ local' = [ local EXCEPT !.excelResponse.state = "rejected",
                                        !.arrived = Append(local.arrived, "excel") ]
         ELSE \E contents \in ListingContents(BUCKET_NAME, ExcelPrefix) :
                LET response == [ state |-> "fulfilled", Contents |-> contents ]
                IN /\ local' = [ local EXCEPT !.excelResponse = response,
                                             !.arrived = Append(local.arrived, "excel") ]
                   /\ ListSettles(local.pdfResponse, response)
  /\ UNCHANGED << ui, BUCKET_NAME, presignerPackage, getSignedUrl, store, call,
                  backendCalls, docCalls >>

\* --------------------------------------------------------- deleteFileFromS3
\* deleteFileFromS3 with the prefix guard left out
DeleteFileFromS3_NoPrefixGuard(fileKey) ==
  /\ pc = "idle"
  /\ call' = [ NoCall EXCEPT !.fn = "deleteFileFromS3", !.src = "part_001", !.fileKey = fileKey ]
  /\ IF fileKey = <<>>
       THEN /\ Rejects("part_001", "deleteFileFromS3", ErrorOf(<<"File key is required">>), "InvalidKey")
            /\ UNCHANGED backendCalls
       ELSE /\ backendCalls' = << KeyRequest("DeleteObject", BUCKET_NAME, fileKey) >>
            /\ pc' = "delete_send"
            /\ UNCHANGED << result, cause, thrown >>
  /\ UNCHANGED << ui, BUCKET_NAME, presignerPackage, getSignedUrl, store, local, docCalls >>

\* deleteFileFromS3 of part_001 up to its await: the two guards, then the send
DeleteFileFromS3(fileKey) ==
  /\ pc = "idle"
  /\ call' = [ NoCall EXCEPT !.fn = "deleteFileFromS3", !.src = "part_001", !.fileKey = fileKey ]
  /\ IF fileKey = <<>>
       THEN /\ Rejects("part_001", "deleteFileFromS3", ErrorOf(<<"File key is required">>), "InvalidKey")
            /\ UNCHANGED backendCalls
       ELSE IF ~startsWith(fileKey, PdfPrefix) /\ ~startsWith(fileKey, ExcelPrefix)
         THEN /\ Rejects("part_001", "deleteFileFromS3", ErrorOf(<<"Invalid file key format">>), "InvalidKey")
              /\ UNCHANGED backendCalls
         ELSE /\ backendCalls' = << KeyRequest("DeleteObject", BUCKET_NAME, fileKey) >>
              /\ pc' = "delete_send"
              /\ UNCHANGED << result, cause, thrown >>
  /\ UNCHANGED << ui, BUCKET_NAME, presignerPackage, getSignedUrl, store, local, docCalls >>

\* the delete settles
DeleteDone ==
  /\ pc = "delete_send"
  /\ \E outcome \in RequestOutcomes(BUCKET_NAME) :
       IF outcome = NoError
         THEN /\ store' = store \ { [ Bucket |-> BUCKET_NAME, Key |-> call.fileKey ] }
              /\ Fulfils(NoResult)
         ELSE /\ Rejects(call.src, call.fn, outcome, "StoreError")
              /\ UNCHANGED store
  /\ UNCHANGED << ui, BUCKET_NAME, presignerPackage, getSignedUrl, call, local,
                  backendCalls, docCalls >>

\* ---------------------------------------------------------- getPresignedUrl
\* the HTTP method a presigned URL authorizes, by the command that was signed
SignedMethod(op) == IF op = "PutObjectCommand" THEN "PUT" ELSE "GET"

\* the command getPresignedUrl signs (lines 290 to 293)
PresignCommand(bucket, fileKey) ==
  [ op |-> "PutObjectCommand", Bucket |-> bucket, Key |-> fileKey ]

\* getPresignedUrl up to its first await: the default of expiresIn applies and
\* the presigner import starts
GetPresignedUrl(fileKey, expiresIn) ==
  /\ pc = "idle"
  /\ call' = [ NoCall EXCEPT !.fn = "getPresignedUrl", !.src = "part_001", !.fileKey = fileKey,
                             !.expiresIn = expiresIn ]
  /\ local' = [ local EXCEPT !.expiresIn = IF expiresIn = Omitted THEN DefaultExpiresIn
                                                                  ELSE expiresIn ]
  /\ pc' = "presign_import"
  /\ UNCHANGED << ui, BUCKET_NAME, presignerPackage, getSignedUrl, store,
                  backendCalls, docCalls, result, cause, thrown >>

\* getPresignedUrl with the failed import of the presigner taken as a failure
PresignImport_NoFallback ==
  /\ pc = "presign_import"
  /\ getSignedUrl' = IF presignerPackage THEN "imported" ELSE getSignedUrl
  /\ IF getSignedUrl' # "undefined"
       THEN /\ local' = [ local EXCEPT !.command = PresignCommand(BUCKET_NAME, call.fileKey) ]
            /\ pc' = "presign_sign"
            /\ UNCHANGED << result, cause, thrown >>
       ELSE /\ Rejects(call.src, call.fn, PresignFailure, "StoreError")
            /\ UNCHANGED local
  /\ UNCHANGED << ui, BUCKET_NAME, presignerPackage, store, call, backendCalls, docCalls >>

\* the import settles; with a presigner the command is built and signed,
\* without one the direct URL is returned
PresignImport ==
  /\ pc = "presign_import"
  /\ getSignedUrl' = IF presignerPackage THEN "imported" ELSE getSignedUrl
  /\ IF getSignedUrl' # "undefined"
       THEN /\ local' = [ local EXCEPT !.command = PresignCommand(BUCKET_NAME, call.fileKey) ]
            /\ pc' = "presign_sign"
            /\ UNCHANGED << result, cause, thrown >>
       ELSE /\ Fulfils([ NoResult EXCEPT !.url =
                           [ NoUrl EXCEPT !.kind = "direct", !.Bucket = BUCKET_NAME,
                                          !.Key = call.fileKey,
                                          !.text = PublicUrl(BUCKET_NAME, call.fileKey) ] ])
            /\ UNCHANGED local
  /\ UNCHANGED << ui, BUCKET_NAME, presignerPackage, store, call, backendCalls, docCalls >>

\* getSignedUrl settles: a URL for the signed command, or the signer's failure
PresignSign ==
  /\ pc = "presign_sign"
  /\ \/ Fulfils([ NoResult EXCEPT !.url =
                    [ NoUrl EXCEPT !.kind = "presigned",
                                   !.method = SignedMethod(local.command.op),
                                   !.Bucket = local.command.Bucket,
                                   !.Key = local.command.Key,
                                   !.expiresIn = local.expiresIn ] ])
     \/ Rejects(call.src, call.fn, PresignFailure, "StoreError")
  /\ UNCHANGED << ui, BUCKET_NAME, presignerPackage, getSignedUrl, store, call, local,
                  backendCalls, docCalls >>

\* ---------------------------------------------------------- getFileMetadata
\* what HeadObject throws for a key the bucket does not hold
NotFoundFailure ==
  [ ctor |-> "S3ServiceException", name |-> "NotFound", message |-> <<"UnknownError">> ]

\* getFileMetadata up to the await of the send
GetFileMetadata(fileKey) ==
  /\ pc = "idle"
  /\ call' = [ NoCall EXCEPT !.fn = "getFileMetadata", !.src = "part_001", !.fileKey = fileKey ]
  /\ backendCalls' = << KeyRequest("HeadObject", BUCKET_NAME, fileKey) >>
  /\ pc' = "head_send"
  /\ UNCHANGED << ui, BUCKET_NAME, presignerPackage, getSignedUrl, store, local,
                  docCalls, result, cause, thrown >>

\* the head settles: the stored metadata of the key, or a failure
HeadDone ==
  /\ pc = "head_send"
  /\ \E outcome \in RequestOutcomes(BUCKET_NAME) :
       IF outcome # NoError
         THEN Rejects(call.src, call.fn, outcome, "StoreError")
         ELSE IF [ Bucket |-> BUCKET_NAME, Key |-> call.fileKey ] \in store
           THEN Fulfils([ NoResult EXCEPT !.metadataOf = call.fileKey ])
           ELSE Rejects(call.src, call.fn, NotFoundFailure, "StoreError")
  /\ UNCHANGED << ui, BUCKET_NAME, presignerPackage, getSignedUrl, store, call, local,
                  backendCalls, docCalls >>

\* ------------------------------------------------------------------ caller
\* the caller has taken the settled promise; the next invocation can start
Return ==
  /\ pc = "done"
  /\ pc' = "idle"
  /\ call' = NoCall
  /\ local' = NoLocal
  /\ backendCalls' = <<>>
  /\ docCalls' = <<>>
  /\ result' = NoResult
  /\ cause' = "none"
  /\ thrown' = NoError
  /\ UNCHANGED << ui, BUCKET_NAME, presignerPackage, getSignedUrl, store >>

\* keys a caller passes: fixed samples and the keys of stored objects
CallerKeys == ArgumentKeys \cup { o.Key : o \in store }

Next ==
  \/ \E file \in PdfUploadFiles, sourceLink \in SourceLinks : UploadPdfToS3(file, sourceLink)
  \/ \E file \in PdfUploadFiles, sourceLink \in SourceLinks : Lib_UploadPdfToS3(file, sourceLink)
  \/ PdfLoad
  \/ PdfSave
  \/ \E file \in ExcelUploadFiles : UploadExcelToS3(file)
  \/ ExcelRead
  \/ UploadDone
  \/ ListFilesFromS3
  \/ Lib_ListFilesFromS3
  \/ PdfListResponse
  \/ ExcelListResponse
  \/ \E fileKey \in CallerKeys : DeleteFileFromS3(fileKey)
  \/ DeleteDone
  \/ \E fileKey \in CallerKeys, expiresIn \in ExpiresInArgs : GetPresignedUrl(fileKey, expiresIn)
  \/ PresignImport
  \/ PresignSign
  \/ \E fileKey \in CallerKeys : GetFileMetadata(fileKey)
  \/ HeadDone
  \/ Return

Spec == Init /\ [][Next]_vars

\* ------------------------------------------------- key derivation on its own
\* the key derivation of the two uploads applied to every bounded file name
InitKey ==
  /\ BUCKET_NAME = PdfBucketLiteral
  /\ presignerPackage = FALSE
  /\ getSignedUrl = "undefined"
  /\ store = {}
  /\ pc = "derive_key"
  /\ \E fn \in { "uploadPdfToS3", "uploadExcelToS3" }, name \in BoundedNames \cup FileNames :
       call = [ NoCall EXCEPT !.fn = fn, !.src = "part_001",
                              !.file = [ NoFile EXCEPT !.name = name, !.size = 1 ] ]
  /\ local = NoLocal
  /\ backendCalls = <<>>
  /\ docCalls = <<>>
  /\ result = NoResult
  /\ cause = "none"
  /\ thrown = NoError
  /\ ui = NoUi

\* the PDF key with "%" put in place of a character outside the class
DerivePdfKey_PercentForUnsafe ==
  /\ pc = "derive_key"
  /\ call.fn = "uploadPdfToS3"
  /\ \E timestamp \in Timestamps :
       LET escaped == [ i \in 1..Len(call.file.name) |->
                          IF InNameClass(call.file.name[i]) THEN call.file.name[i] ELSE 37 ]
       IN local' = [ local EXCEPT
                       !.timestamp = timestamp,
                       !.sanitizedName = escaped,
                       !.fileKey = PdfFileKey(timestamp, escaped) ]
  /\ pc' = "key_derived"
  /\ UNCHANGED << ui, BUCKET_NAME, presignerPackage, getSignedUrl, store, call,
                  backendCalls, docCalls, result, cause, thrown >>

\* lines 114 to 116 of uploadPdfToS3
DerivePdfKey ==
  /\ pc = "derive_key"
  /\ call.fn = "uploadPdfToS3"
  /\ \E timestamp \in Timestamps :
       local' = [ local EXCEPT
                    !.timestamp = timestamp,
                    !.sanitizedName = SanitizeName(call.file.name),
                    !.fileKey = PdfUpload(call.file, call.sourceLink, NoBody, timestamp).Key ]
  /\ pc' = "key_derived"
  /\ UNCHANGED << ui, BUCKET_NAME, presignerPackage, getSignedUrl, store, call,
                  backendCalls, docCalls, result, cause, thrown >>

\* the key built from the file name as it came, as lib/s3.ts builds it
DeriveExcelKey_Unsanitized ==
  /\ pc = "derive_key"
  /\ call.fn = "uploadExcelToS3"
  /\ \E timestamp \in Timestamps :
       local' = [ local EXCEPT
                    !.timestamp = timestamp,
                    !.sanitizedName = call.file.name,
                    !.fileKey = ExcelFileKey(timestamp, call.file.name) ]
  /\ pc' = "key_derived"
  /\ UNCHANGED << ui, BUCKET_NAME, presignerPackage, getSignedUrl, store, call,
                  backendCalls, docCalls, result, cause, thrown >>

\* lines 173 to 175 of uploadExcelToS3
DeriveExcelKey ==
  /\ pc = "derive_key"
  /\ call.fn = "uploadExcelToS3"
  /\ \E timestamp \in Timestamps :
       local' = [ local EXCEPT
                    !.timestamp = timestamp,
                    !.sanitizedName = SanitizeName(call.file.name),
                    !.fileKey = ExcelUpload(BUCKET_NAME, call.file, timestamp).Key ]
  /\ pc' = "key_derived"
  /\ UNCHANGED << ui, BUCKET_NAME, presignerPackage, getSignedUrl, store, call,
                  backendCalls, docCalls, result, cause, thrown >>

NextKey == DerivePdfKey \/ DeriveExcelKey

SpecKey == InitKey /\ [][NextKey]_vars

\* ------------------------------------------------ listing a bucket as found
\* listFilesFromS3 against a bucket that already holds objects, some of them
\* not put by this program
MaxListed == 2

\* "pdf_files/9-b.pdf", "pdf_files/3-c.xlsx"
KeyPdf9 == <<112, 100, 102, 95, 102, 105, 108, 101, 115, 47, 57, 45, 98, 46, 112, 100, 102>>
KeyPdfForeign == <<112, 100, 102, 95, 102, 105, 108, 101, 115, 47, 51, 45, 99, 46, 120, 108, 115, 120>>
\* "excel_sheets/1-c.xls", "excel_sheets/2-d.ods", "excel_sheets/readme.pdf"
KeyExcelXls == <<101, 120, 99, 101, 108, 95, 115, 104, 101, 101, 116, 115, 47, 49, 45, 99, 46, 120, 108, 115>>
KeyExcelOds == <<101, 120, 99, 101, 108, 95, 115, 104, 101, 101, 116, 115, 47, 50, 45, 100, 46, 111, 100, 115>>
KeyExcelForeign == <<101, 120, 99, 101, 108, 95, 115, 104, 101, 101, 116, 115, 47, 114, 101, 97, 100, 109, 101, 46, 112, 100, 102>>

ListedKeySamples == { KeyPdf123, KeyPdf9, KeyPdfForeign, KeyExcel9, KeyExcelXls, KeyExcelOds,
                      KeyExcelForeign, Undefined }

InitList ==
  /\ BUCKET_NAME \in ConfiguredBuckets
  /\ presignerPackage = FALSE
  /\ getSignedUrl = "undefined"
  /\ store \in { S \in SUBSET { [ Bucket |-> BUCKET_NAME, Key |-> k ] : k \in ListedKeySamples } :
                   Cardinality(S) <= MaxListed }
  /\ pc = "idle"
  /\ call = NoCall
  /\ local = NoLocal
  /\ backendCalls = <<>>
  /\ docCalls = <<>>
  /\ result = NoResult
  /\ cause = "none"
  /\ thrown = NoError
  /\ ui = NoUi

NextList ==
  \/ ListFilesFromS3
  \/ Lib_ListFilesFromS3
  \/ PdfListResponse
  \/ ExcelListResponse
  \/ Return

SpecList == InitList /\ [][NextList]_vars

\* ---------------------------------------------------------------- properties
InGateway(fn) == call.fn = fn /\ call.src = "part_001"

Settled == pc = "done"

Rejected == pc = "done" /\ result.status = "rejected"

Fulfilled == pc = "done" /\ result.status = "fulfilled"

\* a key with one of the two category prefixes in front
HasCategoryPrefix(key) ==
  \E n \in 1..Len(key) : SubSeq(key, 1, n) \in { PdfPrefix, ExcelPrefix }

\* C1: deleteFileFromS3 rejects an empty key and a key without a category
\* prefix with an invalid-key error and sends nothing to the object store; for
\* a key with a category prefix it sends exactly one request, the delete of
\* that key, and no head or list request.
C1_DeleteGuard ==
  InGateway("deleteFileFromS3") =>
    IF call.fileKey = <<>> \/ ~HasCategoryPrefix(call.fileKey)
      THEN /\ Rejected
           /\ cause = "InvalidKey"
           /\ result.error.message \in { <<"Failed to delete file: ", "File key is required">>,
                                         <<"Failed to delete file: ", "Invalid file key format">> }
           /\ backendCalls = <<>>
      ELSE /\ Len(backendCalls) = 1
           /\ backendCalls[1].op = "DeleteObject"
           /\ backendCalls[1].Key = call.fileKey

C1_Witness ==
  /\ InGateway("deleteFileFromS3")
  /\ call.fileKey = KeyEvil
  /\ Rejected
  /\ backendCalls = <<>>

\* C2: a file of more than 100 * 1,048,576 bytes makes uploadPdfToS3 and
\* uploadExcelToS3 reject, and the object store receives no request.
C2_OversizeRejectedBeforePut ==
  (/\ call.fn \in { "uploadPdfToS3", "uploadExcelToS3" }
   /\ call.src = "part_001"
   /\ call.file.size > 100 * 1048576)
    => /\ Rejected
       /\ backendCalls = <<>>
       /\ docCalls = <<>>

C2_Witness ==
  /\ InGateway("uploadPdfToS3")
  /\ call.file.size = 104857601
  /\ Rejected
  /\ backendCalls = <<>>

\* C3: in uploadPdfToS3 the rewrite of the document has completed before the
\* put is issued, the put carries the rewritten bytes, and when the rewrite
\* fails the upload rejects with no put issued and the store left as it was.
C3_EmbedBeforePut ==
  /\ [](call.fn = "uploadPdfToS3" =>
          /\ cause = "MetadataWriteError" => Rejected /\ backendCalls = <<>>
          /\ backendCalls # <<>> =>
               /\ docCalls # <<>>
               /\ docCalls[Len(docCalls)] = "save"
               /\ local.modifiedPdfBytes.rewritten
               /\ Len(backendCalls) = 1
               /\ backendCalls[1].op = "PutObject"
               /\ backendCalls[1].Body = local.modifiedPdfBytes)
  /\ [][cause' = "MetadataWriteError" => store' = store]_vars

C3_Witness ==
  /\ InGateway("uploadPdfToS3")
  /\ Rejected
  /\ cause = "MetadataWriteError"
  /\ call.file.bytes = "not-a-pdf"
  /\ docCalls = << "load" >>

\* C4: when either of the two listing requests of listFilesFromS3 fails, the
\* call rejects with one error and returns no entries, also when the other
\* listing had succeeded with entries; it fulfils only when both succeeded.
C4_ListAllOrNothing ==
  call.fn = "listFilesFromS3" =>
    /\ (local.pdfResponse.state = "rejected" \/ local.excelResponse.state = "rejected")
         => /\ Rejected
            /\ cause = "StoreError"
            /\ result.files = <<>>
    /\ Fulfilled => /\ local.pdfResponse.state = "fulfilled"
                    /\ local.excelResponse.state = "fulfilled"

C4_Witness ==
  /\ InGateway("listFilesFromS3")
  /\ Rejected
  /\ local.pdfResponse.state = "fulfilled"
  /\ Len(SelectSeq(local.pdfResponse.Contents, IsPdfKey)) > 0
  /\ local.excelResponse.state = "rejected"

\* the code units of A-Z, a-z, 0-9, ".", "_" and "-"
SafeNameChars == (65..90) \cup (97..122) \cup (48..57) \cup { 46, 95, 45 }

\* the part of the derived key after the prefix, the timestamp and the "-"
SanitizedSegment ==
  LET prefixLen == IF call.fn = "uploadPdfToS3" THEN 10 ELSE 13
  IN SubSeq(local.fileKey, prefixLen + Len(local.timestamp) + 2, Len(local.fileKey))

\* C5: the name segment of the key derived from a file name has the length of
\* the name, consists of characters of [A-Za-z0-9._-] only, keeps every
\* character of that set in place and has "_" where the name has any other.
C5_SanitizedSegment ==
  pc = "key_derived" =>
    /\ Len(SanitizedSegment) = Len(call.file.name)
    /\ \A i \in 1..Len(call.file.name) :
         /\ SanitizedSegment[i] \in SafeNameChars
         /\ IF call.file.name[i] \in SafeNameChars
              THEN SanitizedSegment[i] = call.file.name[i]
              ELSE SanitizedSegment[i] = 95

C5_Witness ==
  /\ pc = "key_derived"
  /\ call.fn = "uploadExcelToS3"
  /\ call.file.name = << 47, 90 >>
  /\ SanitizedSegment = << 95, 90 >>

\* "pdf_files/1700000000000-___final__1.pdf"
KeyReportThreeUnderscores == <<112, 100, 102, 95, 102, 105, 108, 101, 115, 47, 49, 55, 48, 48, 48, 48, 48, 48, 48, 48, 48, 48, 48, 45, 95, 95, 95, 102, 105, 110, 97, 108, 95, 95, 49, 46, 112, 100, 102>>
\* "pdf_files/1700000000000-____final__1.pdf"
KeyReportFourUnderscores == <<112, 100, 102, 95, 102, 105, 108, 101, 115, 47, 49, 55, 48, 48, 48, 48, 48, 48, 48, 48, 48, 48, 48, 45, 95, 95, 95, 95, 102, 105, 110, 97, 108, 95, 95, 49, 46, 112, 100, 102>>

ReportUploaded ==
  /\ InGateway("uploadPdfToS3")
  /\ Fulfilled
  /\ call.file.name = ReportName
  /\ local.timestamp = Ts1700000000000

\* C6 as stated: the upload of "报告 (final)#1.pdf" at 1700000000000 returns
\* the key "pdf_files/1700000000000-___final__1.pdf".
C6_KeyAsStated ==
  ReportUploaded => result.key = KeyReportThreeUnderscores

\* C6: the upload of "报告 (final)#1.pdf" at 1700000000000 returns the key
\* "pdf_files/1700000000000-____final__1.pdf": the four characters before
\* "final" and the two after it each become one "_", and the sanitized name
\* is as long as the original name.
C6_ReportKey ==
  ReportUploaded =>
    /\ result.key = KeyReportFourUnderscores
    /\ Len(local.sanitizedName) = Len(call.file.name)
    /\ backendCalls[1].Key = result.key

C6_Witness == ReportUploaded /\ Len(result.key) = 40

\* what a caller can tell two errors apart by, the message text aside
Discriminator(e) == << e.ctor, e.name >>

\* the error uploadExcelToS3 surfaces for a file over the size limit
SurfacedSizeRejection ==
  Caught("part_001", "uploadExcelToS3",
         validateFileSize([ NoFile EXCEPT !.size = 104857601 ]))

\* C7: a failure of another taxonomy member than ValidationError is surfaced
\* with a discriminator that differs from the one a ValidationError is
\* surfaced with, so that the caller can tell the members apart without
\* reading the message.
C7_MembersDistinguishable ==
  (Rejected /\ call.src = "part_001" /\ cause # "ValidationError")
    => Discriminator(result.error) # Discriminator(SurfacedSizeRejection)

\* C8: uploadPdfToS3 given a file whose declared type is not application/pdf
\* rejects with a validation error, and neither parses or rewrites the
\* document nor sends a put.
C8_PdfTypeCheckedFirst ==
  (InGateway("uploadPdfToS3") /\ call.file.type # "application/pdf")
    => /\ docCalls = <<>>
       /\ backendCalls = <<>>
       /\ Settled => Rejected /\ cause = "ValidationError"

\* C9: uploadExcelToS3 given a declared type outside the three spreadsheet
\* types (the empty string included) rejects with a validation error and sends
\* no put; given one of the three types and a size within the limit it sends
\* exactly one put, under excel_sheets/, returns the key of that put when the
\* put succeeds and rejects with the backend's failure when it does not.
C9_ExcelAllowList ==
  InGateway("uploadExcelToS3") =>
    IF call.file.type \notin { "application/vnd.ms-excel",
                               "application/vnd.openxmlformats-officedocument.spreadsheetml.sheet",
                               "application/vnd.oasis.opendocument.spreadsheet" }
      THEN /\ Rejected
           /\ cause = "ValidationError"
           /\ backendCalls = <<>>
      ELSE call.file.size <= 100 * 1048576 =>
             /\ pc \in { "upload_done", "done" } =>
                  /\ Len(backendCalls) = 1
                  /\ backendCalls[1].op = "PutObject"
                  /\ SubSeq(backendCalls[1].Key, 1, 13) = ExcelPrefix
             /\ Fulfilled => result.key = backendCalls[1].Key
             /\ Rejected => cause = "StoreError"

C9_Witness ==
  /\ InGateway("uploadExcelToS3")
  /\ call.file.type = "application/vnd.oasis.opendocument.spreadsheet"
  /\ Fulfilled
  /\ result.key = backendCalls[1].Key
  /\ [ Bucket |-> BUCKET_NAME, Key |-> result.key ] \in store

\* C10: with the presigner available getPresignedUrl returns a URL that
\* authorizes a GET of the key in the configured bucket and expires after the
\* expiresIn argument, or after 3600 seconds when the argument is omitted.
C10_PresignedUrlAuthorizesGet ==
  (InGateway("getPresignedUrl") /\ Fulfilled /\ result.url.kind = "presigned")
    => /\ result.url.method = "GET"
       /\ result.url.Bucket = BUCKET_NAME
       /\ result.url.Key = call.fileKey
       /\ result.url.expiresIn = IF call.expiresIn = Omitted THEN 3600 ELSE call.expiresIn

\* C11: when the presigner cannot be imported, getPresignedUrl(key) fulfils,
\* sends nothing to the object store, and returns exactly
\* "https://" + bucket + ".s3.amazonaws.com/" + key; every entry that
\* listFilesFromS3 returns has as url that same text built from its own key.
C11_FallbackUrlShape ==
  LET Shape(bucket, key) ==
        <<104, 116, 116, 112, 115, 58, 47, 47>> \o bucket
          \o <<46, 115, 51, 46, 97, 109, 97, 122, 111, 110, 97, 119, 115, 46, 99, 111, 109, 47>>
          \o key
  IN /\ (InGateway("getPresignedUrl") /\ Settled /\ getSignedUrl = "undefined") =>
          /\ Fulfilled
          /\ result.url.kind = "direct"
          /\ result.url.text = Shape(BUCKET_NAME, call.fileKey)
          /\ backendCalls = <<>>
     /\ (InGateway("listFilesFromS3") /\ Fulfilled) =>
          \A i \in 1..Len(result.files) :
            result.files[i].url = Shape(BUCKET_NAME, result.files[i].id)

\* the fallback URL of the key of a stored object
C11_Witness ==
  /\ InGateway("getPresignedUrl")
  /\ Fulfilled
  /\ getSignedUrl = "undefined"
  /\ BUCKET_NAME # <<>>
  /\ \E o \in store : o.Key = call.fileKey /\ result.url.text = PublicUrl(o.Bucket, o.Key)

\* C12: with an empty configured bucket name, every function of part_001
\* (uploadPdfToS3, uploadExcelToS3, listFilesFromS3, deleteFileFromS3,
\* getPresignedUrl, getFileMetadata) sends nothing to the object store and
\* rejects with the configuration error.
C12_EmptyBucketIsFatal ==
  (BUCKET_NAME = <<>> /\ call.src = "part_001") =>
    /\ backendCalls = <<>>
    /\ Settled => (Rejected /\ cause = "ConfigurationError")

\* the place of the entry with the given id in the Contents of a response
PlaceIn(contents, id) ==
  CHOOSE k \in 1..Len(contents) :
    (IF contents[k].Key = Undefined THEN <<>> ELSE contents[k].Key) = id

\* C13: in the list a fulfilled listFilesFromS3 returns (part_001 and
\* lib/s3.ts alike) no "excel" entry stands before a "pdf" entry, and two
\* entries of one category stand in the order in which their response's
\* Contents held them, whatever their keys, sizes and modification times.
C13_PdfThenExcelInBackendOrder ==
  (call.fn = "listFilesFromS3" /\ Fulfilled) =>
    LET files == result.files
        ContentsOf(type) == IF type = "pdf" THEN local.pdfResponse.Contents
                                            ELSE local.excelResponse.Contents
    IN \A i, j \in 1..Len(files) :
         i < j =>
           /\ ~(files[i].type = "excel" /\ files[j].type = "pdf")
           /\ files[i].type = files[j].type =>
                PlaceIn(ContentsOf(files[i].type), files[i].id)
                  < PlaceIn(ContentsOf(files[j].type), files[j].id)

\* part_001 returns two PDF entries in the backend's order, which is neither
\* the order of their names nor that of their sizes or modification times
C13_Witness ==
  /\ InGateway("listFilesFromS3")
  /\ Fulfilled
  /\ Len(result.files) = 2
  /\ result.files[1].id = KeyPdf9
  /\ result.files[2].id = KeyPdf123
  /\ local.pdfResponse.Contents[1].Key = KeyPdf9
  /\ result.files[1].size > result.files[2].size
  /\ result.files[1].uploadedAt.at > result.files[2].uploadedAt.at

\* the key is present and its last code units spell one of the suffixes
KeyHasSuffix(key, suffixes) ==
  /\ key # Undefined
  /\ \E n \in 1..Len(key) : SubSeq(key, n, Len(key)) \in suffixes

\* C14: a fulfilled listFilesFromS3 of part_001 returns exactly one entry for
\* every entry of the pdf_files/ response whose key ends in ".pdf" and for
\* every entry of the excel_sheets/ response whose key ends in ".xlsx", ".xls"
\* or ".ods", and nothing else: an entry with another suffix or without a key
\* is left out, the id of a returned entry is the backend's key, and its type
\* is the listing it came from.
C14_ListedIffExpectedExtension ==
  (InGateway("listFilesFromS3") /\ Fulfilled) =>
    LET files == result.files
        pdfContents == local.pdfResponse.Contents
        excelContents == local.excelResponse.Contents
        pdfSuffixes == { <<46, 112, 100, 102>> }
        excelSuffixes == { <<46, 120, 108, 115, 120>>, <<46, 120, 108, 115>>, <<46, 111, 100, 115>> }
        Returned(type, key) ==
          { i \in 1..Len(files) : files[i].type = type /\ files[i].id = key }
    IN /\ \A k \in 1..Len(pdfContents) :
            IF KeyHasSuffix(pdfContents[k].Key, pdfSuffixes)
              THEN Cardinality(Returned("pdf", pdfContents[k].Key)) = 1
              ELSE Returned("pdf", pdfContents[k].Key) = {}
       /\ \A k \in 1..Len(excelContents) :
            IF KeyHasSuffix(excelContents[k].Key, excelSuffixes)
              THEN Cardinality(Returned("excel", excelContents[k].Key)) = 1
              ELSE Returned("excel", excelContents[k].Key) = {}
       /\ \A i \in 1..Len(files) :
            \/ files[i].type = "pdf"
                 /\ \E k \in 1..Len(pdfContents) : pdfContents[k].Key = files[i].id
            \/ files[i].type = "excel"
                 /\ \E k \in 1..Len(excelContents) : excelContents[k].Key = files[i].id

\* the excel_sheets/ listing holds an entry without a key and an OpenDocument
\* sheet, and only the sheet is returned
C14_Witness ==
  /\ InGateway("listFilesFromS3")
  /\ Fulfilled
  /\ Len(result.files) = 1
  /\ Len(local.excelResponse.Contents) = 2
  /\ local.excelResponse.Contents[1].Key = Undefined
  /\ local.excelResponse.Contents[2].Key = KeyExcelOds
  /\ result.files[1].id = KeyExcelOds
  /\ result.files[1].type = "excel"

\* the message ends with the fragments of the detail
EndsWithDetail(message, detail) ==
  /\ detail # <<>>
  /\ Len(message) > Len(detail)
  /\ SubSeq(message, Len(message) - Len(detail) + 1, Len(message)) = detail

AtMost(n, op) ==
  /\ Len(backendCalls) <= n
  /\ \A i \in 1..Len(backendCalls) : backendCalls[i].op = op

\* C16: an invocation of uploadPdfToS3 or uploadExcelToS3 of part_001 issues
\* at most one put, one of deleteFileFromS3 at most one delete, one of
\* getFileMetadata at most one head, and one of listFilesFromS3 exactly two
\* listings, the first under "pdf_files/" and the second under
\* "excel_sheets/"; a request is issued only while nothing has been thrown,
\* and the step at which something is first thrown rejects the invocation.
C16_NoImplicitRetry ==
  /\ [](call.src = "part_001" =>
          /\ call.fn \in { "uploadPdfToS3", "uploadExcelToS3" } => AtMost(1, "PutObject")
          /\ call.fn = "deleteFileFromS3" => AtMost(1, "DeleteObject")
          /\ call.fn = "getFileMetadata" => AtMost(1, "HeadObject")
          /\ call.fn = "listFilesFromS3" =>
               /\ Len(backendCalls) = 2
               /\ AtMost(2, "ListObjectsV2")
               /\ backendCalls[1].Prefix = PdfPrefix
               /\ backendCalls[2].Prefix = ExcelPrefix)
  /\ [][/\ Len(backendCalls') > Len(backendCalls) =>
             thrown = NoError /\ result.status = "none" /\ result'.status = "none"
        /\ (thrown = NoError /\ thrown' # NoError) =>
             result'.status = "rejected" /\ pc' = "done" /\ backendCalls' = backendCalls]_vars

\* the put of an Excel upload is refused: one put was issued and the upload
\* has rejected with the backend's failure
C16_Witness ==
  /\ InGateway("uploadExcelToS3")
  /\ Rejected
  /\ cause = "StoreError"
  /\ thrown \in BackendFailures
  /\ AtMost(1, "PutObject")
  /\ Len(backendCalls) = 1

\* what encodeURIComponent returns for the sample names and the sample link:
\* "%E6%8A%A5%E5%91%8A%20(final)%231.pdf", "a.pdf", "..%2Fa%20b.xlsx",
\* "Q-1_z.ods", "https%3A%2F%2Fexample.com%2Fa", "%20a%20b%20"
PercentEncodedSample(str) ==
  CASE str = ReportName ->
         <<37, 69, 54, 37, 56, 65, 37, 65, 53, 37, 69, 53, 37, 57, 49, 37, 56, 65, 37, 50, 48, 40, 102, 105, 110, 97, 108, 41, 37, 50, 51, 49, 46, 112, 100, 102>>
    [] str = NameAPdf -> <<97, 46, 112, 100, 102>>
    [] str = NameTraversalXlsx ->
         <<46, 46, 37, 50, 70, 97, 37, 50, 48, 98, 46, 120, 108, 115, 120>>
    [] str = NameOds -> <<81, 45, 49, 95, 122, 46, 111, 100, 115>>
    [] str = LinkSpaced -> <<37, 50, 48, 97, 37, 50, 48, 98, 37, 50, 48>>
    [] str = LinkExample ->
         <<104, 116, 116, 112, 115, 37, 51, 65, 37, 50, 70, 37, 50, 70, 101, 120, 97, 109, 112, 108, 101, 46, 99, 111, 109, 37, 50, 70, 97>>

\* "1" and "104857600", the decimal texts of the sizes that pass validateFileSize
DecimalSample(size) ==
  CASE size = 1 -> <<49>>
    [] size = 104857600 -> <<49, 48, 52, 56, 53, 55, 54, 48, 48>>

\* "1700000000000" or "42", the decimal text of the clock reading
DecimalTimestamps ==
  { <<49, 55, 48, 48, 48, 48, 48, 48, 48, 48, 48, 48, 48>>, <<52, 50>> }

\* C17: the one put of a fulfilled uploadPdfToS3 of part_001 carries Metadata
\* with exactly the entries sourceLink (the percent-encoded source link),
\* originalName (the percent-encoded file name), uploadTimestamp and fileSize,
\* and a Content-Disposition that starts with "attachment"; the one put of a
\* fulfilled uploadExcelToS3 carries exactly originalName, uploadTimestamp and
\* fileSize; in both, uploadTimestamp is the decimal clock reading that
\* follows the category prefix in the key, the returned key is the key of the
\* put, and the object stored has that key.
C17_PutMetadata ==
  (call.src = "part_001" /\ call.fn \in { "uploadPdfToS3", "uploadExcelToS3" } /\ Fulfilled) =>
    /\ Len(backendCalls) = 1
    /\ LET put == backendCalls[1]
           prefix == IF call.fn = "uploadPdfToS3" THEN PdfPrefix ELSE ExcelPrefix
       IN /\ put.op = "PutObject"
          /\ DOMAIN put.Metadata =
               IF call.fn = "uploadPdfToS3"
                 THEN { "sourceLink", "originalName", "uploadTimestamp", "fileSize" }
                 ELSE { "originalName", "uploadTimestamp", "fileSize" }
          /\ call.fn = "uploadPdfToS3" =>
               /\ put.Metadata.sourceLink = PercentEncodedSample(call.sourceLink)
               /\ startsWith(put.ContentDisposition, <<97, 116, 116, 97, 99, 104, 109, 101, 110, 116>>)
          /\ put.Metadata.originalName = PercentEncodedSample(call.file.name)
          /\ put.Metadata.fileSize = DecimalSample(call.file.size)
          /\ put.Metadata.uploadTimestamp \in DecimalTimestamps
          /\ startsWith(put.Key, prefix \o put.Metadata.uploadTimestamp \o <<45>>)
          /\ result.key = put.Key
          /\ \E o \in store : o.Key = result.key /\ o.Bucket = put.Bucket

\* the PDF named "报告 (final)#1.pdf" has been put with its encoded name and link
C17_Witness ==
  /\ InGateway("uploadPdfToS3")
  /\ Fulfilled
  /\ call.file.name = ReportName
  /\ call.file.size = MaxSizeBytes
  /\ backendCalls[1].Metadata.originalName = encodeURIComponent(ReportName)
  /\ backendCalls[1].Metadata.sourceLink # call.sourceLink
  /\ backendCalls[1].Metadata.uploadTimestamp = NumberToString(Ts1700000000000)

\* the places of a code unit in a string
PlacesOf(c, str) == { i \in 1..Len(str) : str[i] = c }

\* the segments of a key between "/" or "\" separators that are ".."
DotDotSegments(key) ==
  { i \in 1..(Len(key) - 1) :
      /\ key[i] = 46
      /\ key[i + 1] = 46
      /\ i = 1 \/ key[i - 1] \in { 47, 92 }
      /\ i + 1 = Len(key) \/ key[i + 2] \in { 47, 92 } }

\* C18: for every file name, with "/", "\", ".." and '"' in it or not, the key
\* uploadPdfToS3 and uploadExcelToS3 derive holds exactly one "/", the one that
\* ends the category prefix, holds no "\" and no segment equal to "..", and the
\* sanitized name holds no '"', so that the Content-Disposition built from it
\* holds just the two quotes around the file name.
C18_NoPathTraversal ==
  pc = "key_derived" =>
    LET key == local.fileKey
        prefix == IF call.fn = "uploadPdfToS3" THEN PdfPrefix ELSE ExcelPrefix
    IN /\ startsWith(key, prefix)
       /\ PlacesOf(47, key) = { Len(prefix) }
       /\ PlacesOf(92, key) = {}
       /\ DotDotSegments(key) = {}
       /\ PlacesOf(34, local.sanitizedName) = {}
       /\ Cardinality(PlacesOf(34, AttachmentDisposition(local.sanitizedName))) = 2

\* the key derived for "../a b.xlsx"
C18_Witness ==
  /\ pc = "key_derived"
  /\ call.fn = "uploadExcelToS3"
  /\ call.file.name = NameTraversalXlsx
  /\ startsWith(local.sanitizedName, <<46, 46, 95>>)
  /\ DotDotSegments(call.file.name) # {}

\* the keys, in order, of the entries whose key has one of the suffixes
KeysWithSuffix(contents, suffixes) ==
  LET Kept(e) == KeyHasSuffix(e.Key, suffixes)
      kept == SelectSeq(contents, Kept)
  IN [ i \in 1..Len(kept) |-> kept[i].Key ]

\* C19: in listFilesFromS3 of part_001 both listing requests have been sent
\* while both responses are still awaited; the call fulfils only once both
\* responses have arrived and are fulfilled, and then with a list that depends
\* on the two Contents alone and not on which response arrived first; as soon
\* as one response is a failure the call has rejected and returns no list.
C19_ConcurrentListings ==
  InGateway("listFilesFromS3") =>
    /\ Len(backendCalls) = 2
    /\ backendCalls[1].Prefix = PdfPrefix
    /\ backendCalls[2].Prefix = ExcelPrefix
    /\ Fulfilled =>
         /\ local.pdfResponse.state = "fulfilled"
         /\ local.excelResponse.state = "fulfilled"
         /\ local.arrived \in { <<"pdf", "excel">>, <<"excel", "pdf">> }
         /\ [ i \in 1..Len(result.files) |-> result.files[i].id ]
              = KeysWithSuffix(local.pdfResponse.Contents, { DotPdf })
                  \o KeysWithSuffix(local.excelResponse.Contents, { DotXlsx, DotXls, DotOds })
    /\ ("pending" \in { local.pdfResponse.state, local.excelResponse.state }
          /\ "rejected" \notin { local.pdfResponse.state, local.excelResponse.state }) =>
         pc = "list_wait" /\ result = NoResult
    /\ "rejected" \in { local.pdfResponse.state, local.excelResponse.state } =>
         Rejected /\ result.files = <<>>

\* the spreadsheet listing arrived first and the PDF entry still comes first
C19_Witness ==
  /\ InGateway("listFilesFromS3")
  /\ Fulfilled
  /\ local.arrived = <<"excel", "pdf">>
  /\ Len(result.files) = 2
  /\ result.files[1].type = "pdf"
  /\ result.files[2].type = "excel"

\* C20: uploadExcelToS3 of part_001 makes no call on pdf-lib (no load, no
\* setter, no save) at any point, and the Body of the put it issues is the
\* content of the file it was given, not rewritten and with no document field
\* set.
C20_ExcelBytesUntouched ==
  InGateway("uploadExcelToS3") =>
    /\ docCalls = <<>>
    /\ local.doc = NoDoc
    /\ \A i \in 1..Len(backendCalls) :
         /\ backendCalls[i].Body.bytes = call.file.bytes
         /\ ~backendCalls[i].Body.rewritten
         /\ backendCalls[i].Body.doc = NoDoc

\* a spreadsheet has been stored with the bytes of the file
C20_Witness ==
  /\ InGateway("uploadExcelToS3")
  /\ Fulfilled
  /\ Len(backendCalls) = 1
  /\ backendCalls[1].Body.bytes = call.file.bytes
  /\ call.file.bytes # "none"
  /\ docCalls = <<>>

\* C21: the document addSourceLinkToPdf of part_001 hands to save() has the
\* source link, code unit for code unit, as its subject, and keywords that
\* hold "source:" followed by the link and an entry that starts with
\* "upload:"; the Body uploadPdfToS3 puts is what save() returned for that
\* document, never the bytes of the file as they came.
C21_SubjectAndKeywords ==
  InGateway("uploadPdfToS3") =>
    /\ pc = "pdf_save" =>
         /\ local.doc.Subject = call.sourceLink
         /\ \E k \in 1..Len(local.doc.Keywords) :
              local.doc.Keywords[k] = <<115, 111, 117, 114, 99, 101, 58>> \o call.sourceLink
         /\ \E k \in 1..Len(local.doc.Keywords) :
              startsWith(local.doc.Keywords[k], <<117, 112, 108, 111, 97, 100, 58>>)
    /\ \A i \in 1..Len(backendCalls) :
         /\ backendCalls[i].Body.rewritten
         /\ backendCalls[i].Body.bytes = call.file.bytes
         /\ backendCalls[i].Body.doc = local.doc
         /\ backendCalls[i].Body.doc.Subject = call.sourceLink
         /\ \E k \in 1..Len(local.doc.Keywords) :
              local.doc.Keywords[k] = <<115, 111, 117, 114, 99, 101, 58>> \o call.sourceLink
         /\ \E k \in 1..Len(local.doc.Keywords) :
              startsWith(local.doc.Keywords[k], <<117, 112, 108, 111, 97, 100, 58>>)

\* a PDF has been stored whose subject is the link " a b ", blanks included
C21_Witness ==
  /\ InGateway("uploadPdfToS3")
  /\ Fulfilled
  /\ call.sourceLink = LinkSpaced
  /\ backendCalls[1].Body.doc.Subject = <<32, 97, 32, 98, 32>>
  /\ backendCalls[1].Body.rewritten

\* C22: the sanitized name uploadPdfToS3 and uploadExcelToS3 derive from a
\* file name is a fixed point of the sanitization: replacing every character
\* outside [A-Za-z0-9._-] by "_" in it once more gives the same name, so
\* sanitizing a name twice is the same as sanitizing it once.
C22_SanitizeIdempotent ==
  pc = "key_derived" =>
    /\ [ i \in 1..Len(local.sanitizedName) |->
           IF local.sanitizedName[i] \in SafeNameChars THEN local.sanitizedName[i] ELSE 95 ]
         = local.sanitizedName
    /\ SanitizeName(local.sanitizedName) = local.sanitizedName
    /\ SanitizeName(SanitizeName(call.file.name)) = SanitizeName(call.file.name)

\* the name '"\' was sanitized to "__", which sanitizes to itself
C22_Witness ==
  /\ pc = "key_derived"
  /\ call.fn = "uploadPdfToS3"
  /\ call.file.name = <<34, 92>>
  /\ local.sanitizedName = <<95, 95>>
  /\ SanitizeName(local.sanitizedName) = <<95, 95>>

\* C24: every key a successful upload of part_001 returns passes the extension
\* filter listFilesFromS3 applies to its category (".pdf" under pdf_files/,
\* ".xlsx", ".xls" or ".ods" under excel_sheets/), so that a later listing of a
\* consistent backend returns the uploaded object.
C24_UploadedKeyPassesListFilter ==
  /\ (InGateway("uploadPdfToS3") /\ Fulfilled) => IsPdfKey([ Key |-> result.key ])
  /\ (InGateway("uploadExcelToS3") /\ Fulfilled) => IsExcelKey([ Key |-> result.key ])

\* C25: every request a function of part_001 sends to the object store, the
\* put of uploadPdfToS3 included, names the configured bucket, and so do the
\* command getPresignedUrl signs and the URLs listFilesFromS3 returns.
C25_OneBucket ==
  call.src = "part_001" =>
    /\ \A i \in 1..Len(backendCalls) : backendCalls[i].Bucket = BUCKET_NAME
    /\ (Fulfilled /\ call.fn = "getPresignedUrl") => result.url.Bucket = BUCKET_NAME
    /\ (Fulfilled /\ call.fn = "listFilesFromS3") =>
         \A i \in 1..Len(result.files) :
           startsWith(result.files[i].url, UrlScheme \o BUCKET_NAME \o UrlHost)

\* ------------------------------------------------------------- FileDropzone
\* String.prototype.toLowerCase on names whose only cased letters are A-Z
toLowerCase(str) ==
  [ i \in 1..Len(str) |-> IF str[i] \in 65..90 THEN str[i] + 32 ELSE str[i] ]

\* name.split(".").pop()
RECURSIVE LastDotSegment(_)
LastDotSegment(name) ==
  IF name = <<>> THEN <<>>
  ELSE IF name[Len(name)] = 46 THEN <<>>
  ELSE Append(LastDotSegment(SubSeq(name, 1, Len(name) - 1)), name[Len(name)])

\* "." + file.name.split(".").pop()?.toLowerCase()
fileExtension(file) == <<46>> \o toLowerCase(LastDotSegment(file.name))

\* null in a state hook that holds a message
NoMessage == <<>>

\* the default of the maxSizeMB prop
DefaultMaxSizeMB == 10

\* "PDF", "Excel"
LabelPdf == <<80, 68, 70>>
LabelExcel == <<69, 120, 99, 101, 108>>

\* the props FileDropzone is mounted with: the defaults, a smaller limit, and
\* the spreadsheet variant
DropzoneProps ==
  { [ acceptedFileTypes |-> { DotPdf }, fileTypeLabel |-> LabelPdf, maxSizeMB |-> DefaultMaxSizeMB ],
    [ acceptedFileTypes |-> { DotPdf }, fileTypeLabel |-> LabelPdf, maxSizeMB |-> 1 ],
    [ acceptedFileTypes |-> { DotXls, DotXlsx }, fileTypeLabel |-> LabelExcel,
      maxSizeMB |-> DefaultMaxSizeMB ] }

\* "A.PDF", "pdf", "b.xls"
NameUpperPdf == <<65, 46, 80, 68, 70>>
NameNoDot == <<112, 100, 102>>
NameBXls == <<98, 46, 120, 108, 115>>

\* the files a user drops or browses
DroppedNames == { NameAPdf, NameUpperPdf, NameNoDot, NameOds, NameTraversalXlsx, NameBXls }
DroppedSizes == { 1, 1024 * 1024 + 1, DefaultMaxSizeMB * 1024 * 1024,
                  DefaultMaxSizeMB * 1024 * 1024 + 1 }
DroppedFiles ==
  [ name : DroppedNames, size : DroppedSizes, type : { "application/pdf" },
    bytes : { "pdf-document" } ]

\* validateFile (lines 34 to 55): the error it sets, NoMessage when it returns true
validateFile(file, props) ==
  IF fileExtension(file) \notin props.acceptedFileTypes
    THEN << "Invalid file type. Please upload a ", props.fileTypeLabel, " file." >>
    ELSE IF file.size > props.maxSizeMB * 1024 * 1024
      THEN << "File size exceeds the ", IntegerToString(props.maxSizeMB), "MB limit." >>
      ELSE NoMessage

\* FileDropzone of FileDropzone.tsx as mounted; dropped and previous record the
\* file of the last event and the selection before it
MountedDropzone(props) ==
  [ component |-> "FileDropzone", props |-> props, selectedFile |-> NoFile,
    error |-> NoMessage, onFileSelect |-> NoFile, dropped |-> NoFile, previous |-> NoFile ]

\* the body shared by handleDrop and handleFileSelect for files[0]
DropzoneTakes(file) ==
  /\ ui.component = "FileDropzone"
  /\ LET error == validateFile(file, ui.props)
     IN ui' = IF error = NoMessage
                THEN [ ui EXCEPT !.error = NoMessage, !.selectedFile = file,
                                 !.onFileSelect = file, !.dropped = file,
                                 !.previous = ui.selectedFile ]
                ELSE [ ui EXCEPT !.error = error, !.dropped = file,
                                 !.previous = ui.selectedFile ]
  /\ UNCHANGED << BUCKET_NAME, presignerPackage, getSignedUrl, store, pc, call, local,
                  backendCalls, docCalls, result, cause, thrown >>

\* lines 57 to 73
handleDrop(file) == DropzoneTakes(file)

\* lines 75 to 87
handleFileSelect(file) == DropzoneTakes(file)

\* -------------------------------------------------------- FileUploadSection
\* uploads a mounted component starts at most
MaxUploads == 2

\* the files given to the dropzone of FileUploadSection, one of them larger
\* than any limit of the program
SectionFiles ==
  { f \in DroppedFiles : f.name \in { NameAPdf, NameOds } /\ f.size = 1 }
    \cup { [ name |-> NameAPdf, size |-> MaxSizeBytes + 1, type |-> "application/pdf",
             bytes |-> "pdf-document" ] }

\* no upload handler is suspended at an await
NoAwait == [ handler |-> "none", progressInterval |-> 0 ]

\* FileUploadSection as mounted (lines 109 to 116); onUpload tells whether the
\* parent passed onPdfUpload and onExcelUpload or left the defaults, intervals
\* holds the ids of the live setInterval timers, started counts the ids handed
\* out, timeout tells whether the reset of a successful upload is scheduled
MountedSection(onUpload) ==
  [ component |-> "FileUploadSection", onUpload |-> onUpload, activeTab |-> "pdf",
    pdfFile |-> NoFile, excelFile |-> NoFile, sourceUrl |-> <<>>, uploadProgress |-> 0,
    isUploading |-> FALSE, uploadError |-> NoMessage, uploadSuccess |-> FALSE,
    intervals |-> {}, started |-> 0, awaiting |-> NoAwait, timeout |-> FALSE ]

GatewayUntouched ==
  UNCHANGED << BUCKET_NAME, presignerPackage, getSignedUrl, store, pc, call, local,
               backendCalls, docCalls, result, cause, thrown >>

\* onValueChange of the tabs
setActiveTab(tab) ==
  /\ ui.component = "FileUploadSection"
  /\ ui' = [ ui EXCEPT !.activeTab = tab ]
  /\ GatewayUntouched

\* onChange of the source URL input, which is disabled during an upload
setSourceUrl(text) ==
  /\ ui.component = "FileUploadSection"
  /\ ~ui.isUploading
  /\ ui' = [ ui EXCEPT !.sourceUrl = text ]
  /\ GatewayUntouched

\* handlePdfFileSelect and handleExcelFileSelect (lines 118 to 130), whichever
\* the dropzone of the active tab was given as onFilesSelected
FilesSelected(files) ==
  IF Len(files) > 0
    THEN IF ui.activeTab = "pdf"
           THEN [ ui EXCEPT !.pdfFile = files[1], !.uploadError = NoMessage ]
           ELSE [ ui EXCEPT !.excelFile = files[1], !.uploadError = NoMessage ]
    ELSE ui

\* handleFileChange of the dropzone inside FileUploadSection (lines 31 to 36);
\* the input is disabled during an upload
Section_handleFileChange(file) ==
  /\ ui.component = "FileUploadSection"
  /\ ~ui.isUploading
  /\ ui' = FilesSelected(<< file >>)
  /\ GatewayUntouched

\* handleDrop of the dropzone inside FileUploadSection (lines 43 to 50)
Section_handleDrop(file) ==
  /\ ui.component = "FileUploadSection"
  /\ ui' = IF ~ui.isUploading THEN FilesSelected(<< file >>) ELSE ui
  /\ GatewayUntouched

\* try block up to the await: the flags are set and the progress timer starts
UploadStarts(handler) ==
  [ ui EXCEPT !.isUploading = TRUE, !.uploadError = NoMessage, !.uploadSuccess = FALSE,
              !.intervals = ui.intervals \cup { ui.started + 1 },
              !.started = ui.started + 1,
              !.awaiting = [ handler |-> handler, progressInterval |-> ui.started + 1 ] ]

\* after the await: the handler's own timer is cleared and the reset scheduled
UploadSucceeded ==
  [ ui EXCEPT !.intervals = ui.intervals \ { ui.awaiting.progressInterval },
              !.uploadProgress = 100, !.uploadSuccess = TRUE,
              !.timeout = TRUE, !.awaiting = NoAwait ]

\* the catch block of an upload handler
UploadFailed(message) ==
  [ ui EXCEPT !.uploadError = message, !.isUploading = FALSE, !.uploadProgress = 0,
              !.awaiting = NoAwait ]

\* handlePdfUpload up to its await (lines 132 to 159), clicked on the button
\* that is disabled without a file, without a URL and during an upload
handlePdfUpload ==
  /\ ui.component = "FileUploadSection"
  /\ ui.activeTab = "pdf"
  /\ ui.pdfFile # NoFile /\ ui.sourceUrl # <<>> /\ ~ui.isUploading
  /\ ui.started < MaxUploads
  /\ ui' = IF ui.pdfFile = NoFile
             THEN [ ui EXCEPT !.uploadError = << "Please select a PDF file" >> ]
             ELSE IF ui.sourceUrl = <<>>
               THEN [ ui EXCEPT !.uploadError = << "Please enter a source URL" >> ]
               ELSE UploadStarts("handlePdfUpload")
  /\ GatewayUntouched

\* handleExcelUpload up to its await (lines 179 to 201)
handleExcelUpload ==
  /\ ui.component = "FileUploadSection"
  /\ ui.activeTab = "excel"
  /\ ui.excelFile # NoFile /\ ~ui.isUploading
  /\ ui.started < MaxUploads
  /\ ui' = IF ui.excelFile = NoFile
             THEN [ ui EXCEPT !.uploadError = << "Please select an Excel file" >> ]
             ELSE UploadStarts("handleExcelUpload")
  /\ GatewayUntouched

\* what the promise of the upload prop can do: the default async () => {}
\* fulfils, a function the parent passed fulfils or rejects
PropOutcomes == IF ui.onUpload = "default" THEN { "fulfilled" } ELSE { "fulfilled", "rejected" }

\* onPdfUpload settles (lines 161 to 176)
PdfUploadSettles ==
  /\ ui.component = "FileUploadSection"
  /\ ui.awaiting.handler = "handlePdfUpload"
  /\ \E outcome \in PropOutcomes :
       ui' = IF outcome = "fulfilled"
               THEN [ UploadSucceeded EXCEPT !.pdfFile = NoFile, !.sourceUrl = <<>> ]
               ELSE UploadFailed(<< "Failed to upload PDF file. Please try again." >>)
  /\ GatewayUntouched

\* onExcelUpload settles (lines 203 to 217)
ExcelUploadSettles ==
  /\ ui.component = "FileUploadSection"
  /\ ui.awaiting.handler = "handleExcelUpload"
  /\ \E outcome \in PropOutcomes :
       ui' = IF outcome = "fulfilled"
               THEN [ UploadSucceeded EXCEPT !.excelFile = NoFile ]
               ELSE UploadFailed(<< "Failed to upload Excel file. Please try again." >>)
  /\ GatewayUntouched

\* a progress timer fires: the updater of lines 150 to 156
IntervalTick(progressInterval) ==
  /\ ui.component \in { "FileUploadSection", "LinkToPDFUploadSection" }
  /\ progressInterval \in ui.intervals
  /\ ui' = IF ui.uploadProgress >= 90
             THEN [ ui EXCEPT !.intervals = ui.intervals \ { progressInterval },
                              !.uploadProgress = 90 ]
             ELSE [ ui EXCEPT !.uploadProgress = ui.uploadProgress + 10 ]
  /\ GatewayUntouched

\* the setTimeout of a successful upload fires (lines 168 to 171)
ResetTimeout ==
  /\ ui.component \in { "FileUploadSection", "LinkToPDFUploadSection" }
  /\ ui.timeout
  /\ ui' = [ ui EXCEPT !.uploadProgress = 0, !.isUploading = FALSE, !.timeout = FALSE ]
  /\ GatewayUntouched

\* --------------------------------------------------- LinkToPDFUploadSection
\* "generated-from-link.pdf"
GeneratedName == <<103, 101, 110, 101, 114, 97, 116, 101, 100, 45, 102, 114, 111, 109, 45, 108, 105, 110, 107, 46, 112, 100, 102>>

\* new File([pdfBlob], "generated-from-link.pdf", { type: "application/pdf" })
GeneratedPdf ==
  [ name |-> GeneratedName, size |-> 1, type |-> "application/pdf", bytes |-> "pdf-document" ]

\* LinkToPDFUploadSection as mounted (lines 18 to 22)
MountedLink ==
  [ component |-> "LinkToPDFUploadSection", link |-> <<>>, uploadProgress |-> 0,
    isUploading |-> FALSE, uploadError |-> NoMessage, uploadSuccess |-> FALSE,
    intervals |-> {}, started |-> 0, awaiting |-> NoAwait, timeout |-> FALSE ]

\* the caller takes the settled promise of the gateway
PromiseTaken ==
  /\ pc' = "idle"
  /\ call' = NoCall
  /\ local' = NoLocal
  /\ backendCalls' = <<>>
  /\ docCalls' = <<>>
  /\ result' = NoResult
  /\ cause' = "none"
  /\ thrown' = NoError
  /\ UNCHANGED << BUCKET_NAME, presignerPackage, getSignedUrl, store >>

\* onChange of the link input, which is disabled during an upload
setLink(text) ==
  /\ ui.component = "LinkToPDFUploadSection"
  /\ ~ui.isUploading
  /\ ui' = [ ui EXCEPT !.link = text ]
  /\ GatewayUntouched

ConvertFailed ==
  UploadFailed(<< "Failed to convert or upload. The target page might be blocking access (CORS restrictions)." >>)

\* handleConvertAndUpload up to the await of fetch (lines 25 to 37), clicked on
\* the button that is disabled without a link and during an upload
handleConvertAndUpload ==
  /\ ui.component = "LinkToPDFUploadSection"
  /\ ui.link # <<>> /\ ~ui.isUploading
  /\ ui.started < MaxUploads
  /\ Cardinality(store) < MaxObjects
  /\ ui' = IF ui.link = <<>>
             THEN [ ui EXCEPT !.uploadError = << "Please enter a valid URL" >> ]
             ELSE [ ui EXCEPT !.isUploading = TRUE, !.uploadError = NoMessage,
                              !.uploadSuccess = FALSE,
                              !.awaiting = [ handler |-> "fetch", progressInterval |-> 0 ] ]
  /\ GatewayUntouched

\* fetch settles (lines 37 to 40): a response that is ok is read as text, any
\* other response and a network failure go to the catch block
FetchSettles ==
  /\ ui.component = "LinkToPDFUploadSection"
  /\ ui.awaiting.handler = "fetch"
  /\ \E outcome \in { "ok", "not ok", "rejected" } :
       ui' = IF outcome = "ok"
               THEN [ ui EXCEPT !.awaiting.handler = "text" ]
               ELSE ConvertFailed
  /\ GatewayUntouched

\* response.text() settles (lines 40 to 61): the page goes into a hidden
\* container and html2pdf starts
TextSettles ==
  /\ ui.component = "LinkToPDFUploadSection"
  /\ ui.awaiting.handler = "text"
  /\ \E outcome \in { "fulfilled", "rejected" } :
       ui' = IF outcome = "fulfilled"
               THEN [ ui EXCEPT !.awaiting.handler = "html2pdf" ]
               ELSE ConvertFailed
  /\ GatewayUntouched

\* html2pdf settles (lines 52 to 80): the file is built, the progress timer
\* starts and uploadPdfToS3 of lib/s3.ts is called
Html2PdfSettles ==
  /\ ui.component = "LinkToPDFUploadSection"
  /\ ui.awaiting.handler = "html2pdf"
  /\ \/ /\ ui' = [ ui EXCEPT !.intervals = ui.intervals \cup { ui.started + 1 },
                            !.started = ui.started + 1,
                            !.awaiting = [ handler |-> "uploadPdfToS3",
                                           progressInterval |-> ui.started + 1 ] ]
        /\ Lib_UploadPdf(GeneratedPdf, ui.link)
     \/ /\ ui' = ConvertFailed
        /\ GatewayUntouched

\* uploadPdfToS3 settles (lines 80 to 98)
ConvertUploadSettles ==
  /\ ui.component = "LinkToPDFUploadSection"
  /\ ui.awaiting.handler = "uploadPdfToS3"
  /\ pc = "done"
  /\ ui' = IF result.status = "fulfilled"
             THEN [ UploadSucceeded EXCEPT !.link = <<>> ]
             ELSE ConvertFailed
  /\ PromiseTaken

\* ------------------------------------------- the upload components on their own
InitUpload ==
  /\ BUCKET_NAME = PdfBucketLiteral
  /\ presignerPackage = FALSE
  /\ getSignedUrl = "undefined"
  /\ store = {}
  /\ pc = "idle"
  /\ call = NoCall
  /\ local = NoLocal
  /\ backendCalls = <<>>
  /\ docCalls = <<>>
  /\ result = NoResult
  /\ cause = "none"
  /\ thrown = NoError
  /\ ui \in { MountedDropzone(props) : props \in DropzoneProps }
              \cup { MountedSection(onUpload) : onUpload \in { "default", "provided" } }
              \cup { MountedLink }

NextUpload ==
  \/ \E file \in DroppedFiles : handleDrop(file)
  \/ \E file \in DroppedFiles : handleFileSelect(file)
  \/ \E tab \in { "pdf", "excel" } : setActiveTab(tab)
  \/ \E text \in { <<>>, LinkExample } : setSourceUrl(text)
  \/ \E file \in SectionFiles : Section_handleFileChange(file)
  \/ \E file \in SectionFiles : Section_handleDrop(file)
  \/ handlePdfUpload
  \/ handleExcelUpload
  \/ PdfUploadSettles
  \/ ExcelUploadSettles
  \/ \E progressInterval \in 1..MaxUploads : IntervalTick(progressInterval)
  \/ ResetTimeout
  \/ \E text \in { <<>>, LinkExample } : setLink(text)
  \/ handleConvertAndUpload
  \/ FetchSettles
  \/ TextSettles
  \/ Html2PdfSettles
  \/ PdfLoad
  \/ PdfSave
  \/ UploadDone
  \/ ConvertUploadSettles

SpecUpload == InitUpload /\ [][NextUpload]_vars

\* the lower-cased extension of a file name, dot included: the part from the
\* last "." on, nothing when the name has no "."
ExtensionOf(name) ==
  IF \E i \in 1..Len(name) : name[i] = 46
    THEN LET last == CHOOSE i \in 1..Len(name) :
                       name[i] = 46 /\ \A j \in (i + 1)..Len(name) : name[j] # 46
         IN [ k \in 1..(Len(name) - last + 1) |->
                IF name[last + k - 1] \in 65..90 THEN name[last + k - 1] + 32
                                                  ELSE name[last + k - 1] ]
    ELSE <<>>

\* C23: a dropped or browsed file is handed to the selection callback and
\* becomes the selected file only if its lower-cased extension is in the
\* allowed extension set and its size is at most maxSizeMB * 1,048,576 bytes; a
\* file failing either check leaves an invalid-type or size-exceeded error and
\* the previous selection. For FileDropzone.tsx the set and the limit are its
\* props; for the dropzone inside FileUploadSection the set is the one the
\* tab passes (".pdf", or ".xls" and ".xlsx") and no limit is passed.
C23_DropzoneGatesSelection ==
  /\ ui.component = "FileDropzone" =>
       LET Passes(file) == /\ ExtensionOf(file.name) \in ui.props.acceptedFileTypes
                           /\ file.size <= ui.props.maxSizeMB * 1048576
       IN /\ ui.selectedFile # NoFile => Passes(ui.selectedFile)
          /\ ui.onFileSelect # NoFile => Passes(ui.onFileSelect)
          /\ (ui.dropped # NoFile /\ ~Passes(ui.dropped)) =>
               /\ ui.error # NoMessage
               /\ ui.selectedFile = ui.previous
  /\ ui.component = "FileUploadSection" =>
       /\ ui.pdfFile # NoFile => ExtensionOf(ui.pdfFile.name) \in { DotPdf }
       /\ ui.excelFile # NoFile => ExtensionOf(ui.excelFile.name) \in { DotXls, DotXlsx }

\* C26: in the upload components a progress timer is live only while an upload
\* is awaited; uploadProgress is 0 whenever isUploading is false (a failed
\* upload sets it to 0 and no tick raises it), and it is 100 for as long as the
\* reset of a successful upload is scheduled (no tick lowers it).
C26_ProgressTimerOnlyWhilePending ==
  ui.component \in { "FileUploadSection", "LinkToPDFUploadSection" } =>
    /\ ui.intervals # {} =>
         ui.awaiting.handler \in { "handlePdfUpload", "handleExcelUpload", "uploadPdfToS3" }
    /\ ~ui.isUploading => ui.uploadProgress = 0
    /\ ui.timeout => ui.uploadProgress = 100

\* ---------------------------------------------------------------- FilesList
itemsPerPage == 10

\* "#"
MockUrl == <<35>>

\* new Date("2023-12-15") and the like, kept as the number yyyymmdd
DateLiteral(yyyymmdd) == [ from |-> "literal", at |-> yyyymmdd ]

\* lines 79 to 120
mockFiles ==
  << [ id |-> <<49>>, type |-> "pdf", uploadedAt |-> DateLiteral(20231215), size |-> 2456789,
       url |-> MockUrl,
       name |-> <<97, 110, 110, 117, 97, 108, 45, 114, 101, 112, 111, 114, 116, 45, 50, 48, 50, 51, 46, 112, 100, 102>> ],
     [ id |-> <<50>>, type |-> "excel", uploadedAt |-> DateLiteral(20231210), size |-> 1234567,
       url |-> MockUrl,
       name |-> <<102, 105, 110, 97, 110, 99, 105, 97, 108, 45, 100, 97, 116, 97, 45, 113, 52, 46, 120, 108, 115, 120>> ],
     [ id |-> <<51>>, type |-> "pdf", uploadedAt |-> DateLiteral(20231128), size |-> 3456789,
       url |-> MockUrl,
       name |-> <<112, 114, 111, 100, 117, 99, 116, 45, 99, 97, 116, 97, 108, 111, 103, 46, 112, 100, 102>> ],
     [ id |-> <<52>>, type |-> "excel", uploadedAt |-> DateLiteral(20231120), size |-> 987654,
       url |-> MockUrl,
       name |-> <<105, 110, 118, 101, 110, 116, 111, 114, 121, 45, 50, 48, 50, 51, 46, 120, 108, 115, 120>> ],
     [ id |-> <<53>>, type |-> "pdf", uploadedAt |-> DateLiteral(20231115), size |-> 1567890,
       url |-> MockUrl,
       name |-> <<109, 97, 114, 107, 101, 116, 105, 110, 103, 45, 115, 116, 114, 97, 116, 101, 103, 121, 46, 112, 100, 102>> ] >>

\* line 76: Math.ceil(files.length / itemsPerPage), of the files prop
totalPages(u) == (Len(u.files) + itemsPerPage - 1) \div itemsPerPage

\* lines 122 to 123
displayFiles(u) ==
  IF Len(u.s3Files) > 0 THEN u.s3Files
  ELSE IF Len(u.files) > 0 THEN u.files
  ELSE mockFiles

\* uploadedAt.getTime(), in the unit of the date; new Date() is later than
\* every date a listing or a literal carries
getTime(date) == IF date.from = "new Date()" THEN 30000000 ELSE date.at

\* a.localeCompare(b) < 0 for strings of digits, lower-case letters, "-", "_",
\* "." and "/", where the collation order is the order of the code units
LocaleBefore(a, b) ==
  \E k \in 1..(Len(b)) :
    /\ \A j \in 1..(k - 1) : j <= Len(a) /\ a[j] = b[j]
    /\ (k > Len(a) \/ a[k] < b[k])

TypeText(type) == IF type = "pdf" THEN <<112, 100, 102>> ELSE <<101, 120, 99, 101, 108>>

\* the comparator of lines 168 to 183 is negative for (a, b)
SortsBefore(a, b, sortField, sortDirection) ==
  LET x == IF sortDirection = "asc" THEN a ELSE b
      y == IF sortDirection = "asc" THEN b ELSE a
  IN CASE sortField = "name" -> LocaleBefore(x.name, y.name)
       [] sortField = "type" -> LocaleBefore(TypeText(x.type), TypeText(y.type))
       [] OTHER -> getTime(x.uploadedAt) < getTime(y.uploadedAt)

\* [...displayFiles].sort(comparator): Array.prototype.sort is stable
RECURSIVE SortFiles(_, _, _)
SortFiles(list, sortField, sortDirection) ==
  IF list = <<>> THEN <<>>
  ELSE LET sorted == SortFiles(SubSeq(list, 1, Len(list) - 1), sortField, sortDirection)
           x == list[Len(list)]
           k == Cardinality({ i \in 1..Len(sorted) :
                                ~SortsBefore(x, sorted[i], sortField, sortDirection) })
       IN SubSeq(sorted, 1, k) \o << x >> \o SubSeq(sorted, k + 1, Len(sorted))

\* the effect of lines 167 to 186, which runs after every render that changed
\* displayFiles, sortField or sortDirection
Rendered(u) ==
  [ u EXCEPT !.sortedFiles = SortFiles(displayFiles(u), u.sortField, u.sortDirection) ]

\* lines 189 to 192: sortedFiles.slice((currentPage - 1) * 10, currentPage * 10)
currentFiles(u) ==
  LET from == (u.currentPage - 1) * itemsPerPage
      to == IF u.currentPage * itemsPerPage < Len(u.sortedFiles)
              THEN u.currentPage * itemsPerPage ELSE Len(u.sortedFiles)
  IN SubSeq(u.sortedFiles, from + 1, to)

\* FilesList as mounted with the files prop (lines 65 to 73), before its mount
\* effect runs; listed and listing record whether a listing has succeeded and
\* what it returned, onDelete the ids the onDelete prop was called with
MountedFilesList(files) ==
  Rendered([ component |-> "FilesList", files |-> files, currentPage |-> 1,
             sortField |-> "uploadedAt", sortDirection |-> "desc", sortedFiles |-> <<>>,
             isLoading |-> FALSE, s3Files |-> <<>>, error |-> NoMessage,
             awaiting |-> "mount", deleting |-> <<>>,
             listed |-> FALSE, listing |-> <<>>, onDelete |-> {} ])

\* deleteFileFromS3 of lib/s3.ts up to the await of the send (lines 149 to 158)
Lib_DeleteFile(fileKey) ==
  /\ pc = "idle"
  /\ call' = [ NoCall EXCEPT !.fn = "deleteFileFromS3", !.src = "lib/s3.ts", !.fileKey = fileKey ]
  /\ backendCalls' = << KeyRequest("DeleteObject", BUCKET_NAME, fileKey) >>
  /\ pc' = "delete_send"
  /\ UNCHANGED << BUCKET_NAME, presignerPackage, getSignedUrl, store, local, docCalls,
                  result, cause, thrown >>

\* the mount effect (lines 141 to 143) calls fetchFiles, which runs up to
\* its await (lines 126 to 130)
fetchFiles ==
  /\ ui.component = "FilesList"
  /\ ui.awaiting = "mount"
  /\ ui' = Rendered([ ui EXCEPT !.isLoading = TRUE, !.error = NoMessage,
                                !.awaiting = "fetchFiles" ])
  /\ ListFiles("lib/s3.ts")

\* listFilesFromS3 settles (lines 131 to 137)
fetchFilesSettles ==
  /\ ui.component = "FilesList"
  /\ ui.awaiting = "fetchFiles"
  /\ pc = "done"
  /\ ui' = IF result.status = "fulfilled"
             THEN Rendered([ ui EXCEPT !.s3Files = result.files, !.isLoading = FALSE,
                                       !.awaiting = "none",
                                       !.listed = TRUE, !.listing = result.files ])
             ELSE Rendered([ ui EXCEPT !.error = << "Failed to fetch files. Please try again." >>,
                                       !.isLoading = FALSE, !.awaiting = "none" ])
  /\ PromiseTaken

\* the rows of the table, which is rendered when nothing is loading
RowsOnDisplay == IF ui.isLoading THEN <<>> ELSE currentFiles(ui)

\* the ids of the rows, each of which has a delete dialog
RowIds == { RowsOnDisplay[i].id : i \in 1..Len(RowsOnDisplay) }

\* Delete is confirmed in the dialog of a row: handleDeleteFile up to its
\* await (lines 146 to 149)
handleDeleteFile(fileId) ==
  /\ ui.component = "FilesList"
  /\ ui.awaiting = "none"
  /\ fileId \in RowIds
  /\ ui' = Rendered([ ui EXCEPT !.isLoading = TRUE, !.awaiting = "handleDeleteFile",
                                !.deleting = fileId ])
  /\ Lib_DeleteFile(fileId)

\* deleteFileFromS3 settles (lines 150 to 163)
handleDeleteSettles ==
  /\ ui.component = "FilesList"
  /\ ui.awaiting = "handleDeleteFile"
  /\ pc = "done"
  /\ LET Kept(file) == file.id # ui.deleting
     IN ui' = IF result.status = "fulfilled"
                THEN Rendered([ ui EXCEPT !.s3Files = SelectSeq(ui.s3Files, Kept),
                                          !.onDelete = ui.onDelete \cup { ui.deleting },
                                          !.isLoading = FALSE, !.awaiting = "none",
                                          !.deleting = <<>> ])
                ELSE Rendered([ ui EXCEPT !.error = << "Failed to delete file. Please try again." >>,
                                          !.isLoading = FALSE, !.awaiting = "none",
                                          !.deleting = <<>> ])
  /\ PromiseTaken

\* a column header is clicked (lines 194 to 201)
handleSort(field) ==
  /\ ui.component = "FilesList"
  /\ ui.awaiting = "none"
  /\ ~ui.isLoading
  /\ ui' = IF field = ui.sortField
             THEN Rendered([ ui EXCEPT !.sortDirection =
                                         IF ui.sortDirection = "asc" THEN "desc" ELSE "asc" ])
             ELSE Rendered([ ui EXCEPT !.sortField = field, !.sortDirection = "asc" ])
  /\ GatewayUntouched

\* the pagination is rendered when nothing is loading and totalPages > 1
PaginationRendered ==
  /\ ui.component = "FilesList"
  /\ ui.awaiting = "none"
  /\ ~ui.isLoading
  /\ totalPages(ui) > 1

\* lines 349 to 358
PaginationPrevious ==
  /\ PaginationRendered
  /\ ui' = Rendered([ ui EXCEPT !.currentPage =
                                  IF ui.currentPage - 1 > 1 THEN ui.currentPage - 1 ELSE 1 ])
  /\ GatewayUntouched

\* lines 361 to 372
PaginationLink(page) ==
  /\ PaginationRendered
  /\ page \in 1..totalPages(ui)
  /\ ui' = Rendered([ ui EXCEPT !.currentPage = page ])
  /\ GatewayUntouched

\* lines 375 to 386
PaginationNext ==
  /\ PaginationRendered
  /\ ui' = Rendered([ ui EXCEPT !.currentPage =
                                  IF ui.currentPage + 1 < totalPages(ui)
                                    THEN ui.currentPage + 1 ELSE totalPages(ui) ])
  /\ GatewayUntouched

\* ------------------------------------------------------ FilesList on its own
\* files the parent passes: i files under excel_sheets/
PropSample(m) ==
  [ i \in 1..m |->
      [ id |-> ExcelPrefix \o IntegerToString(i) \o <<45, 98, 46, 120, 108, 115, 120>>,
        name |-> IntegerToString(i) \o <<45, 98, 46, 120, 108, 115, 120>>,
        type |-> "excel", uploadedAt |-> DateLiteral(20240100 + i), size |-> 7,
        url |-> MockUrl ] ]

\* FilesList mounted by a page over a bucket that holds none, one or both of
\* two objects
InitFiles ==
  /\ BUCKET_NAME = PdfBucketLiteral
  /\ presignerPackage = FALSE
  /\ getSignedUrl = "undefined"
  /\ store \in SUBSET { [ Bucket |-> BUCKET_NAME, Key |-> k ] : k \in { KeyPdf123, KeyExcel9 } }
  /\ pc = "idle"
  /\ call = NoCall
  /\ local = NoLocal
  /\ backendCalls = <<>>
  /\ docCalls = <<>>
  /\ result = NoResult
  /\ cause = "none"
  /\ thrown = NoError
  /\ ui \in { MountedFilesList(files) : files \in { <<>>, PropSample(1) } }

NextFiles ==
  \/ fetchFiles
  \/ PdfListResponse
  \/ ExcelListResponse
  \/ fetchFilesSettles
  \/ \E fileId \in RowIds : handleDeleteFile(fileId)
  \/ DeleteDone
  \/ handleDeleteSettles
  \/ \E field \in { "name", "type", "uploadedAt" } : handleSort(field)

SpecFiles == InitFiles /\ [][NextFiles]_vars

\* ---------------------------------------------------- pagination on its own
\* objects a listing returns at most
MaxFetched == 11

\* the Contents of a listing of n objects under pdf_files/
FetchedContents(n) ==
  [ i \in 1..n |-> [ Key |-> PdfPrefix \o IntegerToString(i) \o <<45, 97, 46, 112, 100, 102>>,
                     Size |-> 7, LastModified |-> i ] ]

\* FilesList after its listing has returned n files, with m files as props
LoadedFilesList(n, m) ==
  LET fetchedFiles == Lib_ListedFiles(FetchedContents(n), <<>>, PdfBucketLiteral)
  IN Rendered([ MountedFilesList(PropSample(m)) EXCEPT
                  !.s3Files = fetchedFiles, !.awaiting = "none",
                  !.listed = TRUE, !.listing = fetchedFiles ])

InitPages ==
  /\ BUCKET_NAME = PdfBucketLiteral
  /\ presignerPackage = FALSE
  /\ getSignedUrl = "undefined"
  /\ pc = "idle"
  /\ call = NoCall
  /\ local = NoLocal
  /\ backendCalls = <<>>
  /\ docCalls = <<>>
  /\ result = NoResult
  /\ cause = "none"
  /\ thrown = NoError
  /\ \E n \in 0..MaxFetched, m \in { 0, MaxFetched } :
       /\ store = { [ Bucket |-> BUCKET_NAME, Key |-> FetchedContents(n)[i].Key ] : i \in 1..n }
       /\ ui = LoadedFilesList(n, m)

NextPages ==
  \/ \E field \in { "name", "type", "uploadedAt" } : handleSort(field)
  \/ PaginationPrevious
  \/ \E page \in 1..MaxFetched : PaginationLink(page)
  \/ PaginationNext

SpecPages == InitPages /\ [][NextPages]_vars

\* the elements of a list
Elements(list) == { list[i] : i \in 1..Len(list) }

\* C27: once a listing has succeeded, the files FilesList displays are the
\* listed files minus those deleted since; no mock file is displayed, also
\* when the listing was empty or the last listed file has been deleted.
C27_ListedMinusDeleted ==
  (ui.component = "FilesList" /\ ui.listed /\ ~ui.isLoading) =>
    /\ Elements(ui.sortedFiles) = { f \in Elements(ui.listing) : f.id \notin ui.onDelete }
    /\ \A f \in Elements(ui.sortedFiles) : f \notin Elements(mockFiles)

\* C28: the pages FilesList offers are as many as the displayed files need,
\* ceil(displayed / 10) and at least the one shown; currentPage is one of
\* them; every displayed file is on exactly one page that can be navigated to.
C28_EveryFileOnOnePage ==
  (ui.component = "FilesList" /\ ui.awaiting = "none") =>
    LET needed == (Len(ui.sortedFiles) + 9) \div 10
        pages == IF needed > 1 THEN needed ELSE 1
        offered == IF totalPages(ui) > 1 THEN 1..totalPages(ui) ELSE { ui.currentPage }
        OnPage(i, page) == (page - 1) * 10 < i /\ i <= page * 10
    IN /\ Cardinality(offered) = pages
       /\ ui.currentPage \in 1..pages
       /\ \A i \in 1..Len(ui.sortedFiles) :
            Cardinality({ page \in offered : OnPage(i, page) }) = 1

\* C29: no delete request of the file list reaches the object store for a key
\* outside pdf_files/ and excel_sheets/, whichever rows are on display, and
\* onDelete has been called only for ids whose object the backend deleted.
C29_DeleteOnlyCategoryKeys ==
  ui.component = "FilesList" =>
    /\ \A i \in 1..Len(backendCalls) :
         backendCalls[i].op = "DeleteObject" =>
           \/ Len(backendCalls[i].Key) >= 10 /\ SubSeq(backendCalls[i].Key, 1, 10) = PdfPrefix
           \/ Len(backendCalls[i].Key) >= 13 /\ SubSeq(backendCalls[i].Key, 1, 13) = ExcelPrefix
    /\ \A fileId \in ui.onDelete : [ Bucket |-> BUCKET_NAME, Key |-> fileId ] \notin store

====
